---- MODULE Spec2Model ----
(***************************************************************************)
(* Flow observation engine of safing/portmaster: the eBPF hooks of         *)
(* programs/monitor.c (connection events over a ring buffer) and of        *)
(* programs/bandwidth.c (per-flow byte counters in an LRU hash map), with  *)
(* the user-space consumer that drains the ring buffer and scans the map.  *)
(*                                                                         *)
(* Multi-byte values are kept as tuples of bytes in memory order, so that  *)
(* a byte swap is a real operation (the reversal of the tuple).  The       *)
(* programs are built for x86 (vmlinux-x86.h): a host-order integer lies   *)
(* in memory least significant byte first.                                 *)
(***************************************************************************)
EXTENDS Integers, Sequences, FiniteSets, TLC

\* ------------------------------------------------------------------ bounds
\* Hook invocations in one run of the accounting-table specifications.
MaxCalls == 3
\* Hook invocations in one run against the consumer's scan.
MaxScanCalls == 2
\* Hook invocations in a run that is checked for progress.
MaxLiveCalls == 2
\* Hook invocations in one run of the execve specification.
MaxExecCalls == 2
\* Scaled ARGLEN (32 in the source): the argv entries enter_execve copies.
ArgLenBound == 2
\* Events the DNS trace listener is called for in one run.
MaxTraceEvents == 2
\* Calls of pm_InitDriverObject in one run.
MaxLoads == 3
\* Packets handed to the nfqueue callback in one run.
MaxPackets == 2
\* Scaled capacity of pm_bandwidth_map (5000 in the source).
MapSizeBound == 2
\* Hook invocations in one run of the event-channel specification.
MaxEvents == 3
\* Scaled capacity of pm_connection_events, in records (1 << 24 bytes in the source).
RingRecordsBound == 2

\* --------------------------------------------------------------- constants
AF_INET == 2
AF_INET6 == 10
\* A family that is neither AF_INET nor AF_INET6.
AF_OTHER == AF_INET - 1
PROTOCOL_TCP == 6
PROTOCOL_UDP == 17
TCP == 6
UDP == 17
UDPLite == 136
IPPROTO_UDPLITE == UDPLite
OUTBOUND == 0
INBOUND == 1
SOCKOPS_MAP_SIZE == MapSizeBound

\* ------------------------------------------------------------- byte values
LE16(n) == <<n % 256, n \div 256>>
BE16(n) == <<n \div 256, n % 256>>
LE32(n) == <<n % 256, (n \div 256) % 256, (n \div 65536) % 256, 0>>
bswap16(b) == <<b[2], b[1]>>
bswap32(b) == <<b[4], b[3], b[2], b[1]>>
ZERO16 == <<0, 0>>
ZERO32 == <<0, 0, 0, 0>>
ZERO128 == <<ZERO32, ZERO32, ZERO32, ZERO32>>

\* ----------------------------------------------------------------- sockets
\* struct sock_common as the hooks read it.  Addresses and skc_dport are in
\* network byte order in memory, skc_num is a host-order integer.
Sock(fam, proto, s4, d4, s6, d6, num, dport) ==
    [skc_family |-> fam, sk_protocol |-> proto,
     skc_rcv_saddr |-> s4, skc_daddr |-> d4,
     skc_v6_rcv_saddr |-> s6, skc_v6_daddr |-> d6,
     skc_num |-> LE16(num), skc_dport |-> BE16(dport)]

V6A == << <<32, 1, 13, 184>>, ZERO32, ZERO32, <<0, 0, 0, 1>> >>
V6B == << <<32, 1, 13, 184>>, ZERO32, ZERO32, <<0, 0, 0, 2>> >>
V6C == << <<32, 1, 13, 184>>, ZERO32, ZERO32, <<0, 0, 0, 3>> >>

U4a == Sock(AF_INET, UDP, <<10, 0, 0, 5>>, <<93, 184, 216, 34>>, ZERO128, ZERO128, 51000, 53)
U4b == Sock(AF_INET, UDP, <<10, 0, 0, 5>>, <<203, 0, 113, 5>>, ZERO128, ZERO128, 51000, 53)
U4l == Sock(AF_INET, IPPROTO_UDPLITE, <<10, 0, 0, 5>>, <<203, 0, 113, 5>>, ZERO128, ZERO128, 51001, 53)
U6a == Sock(AF_INET6, UDP, ZERO32, ZERO32, V6A, V6B, 51000, 53)
U6b == Sock(AF_INET6, UDP, ZERO32, ZERO32, V6A, V6C, 51000, 53)
T4a == Sock(AF_INET, TCP, <<10, 0, 0, 5>>, <<93, 184, 216, 34>>, ZERO128, ZERO128, 51000, 443)
T6a == Sock(AF_INET6, TCP, ZERO32, ZERO32, V6A, V6B, 51000, 443)
TXa == Sock(AF_OTHER, 0, ZERO32, ZERO32, ZERO128, ZERO128, 0, 0)
\* Datagram sockets whose connect failed (no destination port), and a UDP-Lite one.
U4z == Sock(AF_INET, UDP, <<10, 0, 0, 5>>, ZERO32, ZERO128, ZERO128, 51000, 0)
U6z == Sock(AF_INET6, UDP, ZERO32, ZERO32, V6A, ZERO128, 51000, 0)
U6l == Sock(AF_INET6, IPPROTO_UDPLITE, ZERO32, ZERO32, V6A, V6B, 51001, 53)

\* Sockets the datagram hooks of bandwidth.c are called on.
Udp4Socks == {U4a, U4b}
Udp6Socks == {U6a, U6b}
\* udp_sendmsg is also the sendmsg of UDP-Lite sockets: the sockets it is
\* called on where the hooks of both programs run together.
SendSocks(h) == IF h = "all" THEN Udp4Socks \cup {U4l} ELSE Udp4Socks
\* struct bpf_sock of a sockops callback, as socket_operations reads it:
\* src_port is a host-order integer, dst_port is in network byte order.
NULL == 0
TcpSocks == {T4a, T6a}
\* Totals a sockops callback is handed.
TcpTotals == {0, 1}
Lens == {1, 2}

\* ------------------------------------------------------------ struct sk_key
sk_key(src, dst, sport, dport, proto, v6) ==
    [src_ip |-> src, dst_ip |-> dst, src_port |-> sport, dst_port |-> dport,
     protocol |-> proto, ipv6 |-> v6]

Lane0(a) == <<a, ZERO32, ZERO32, ZERO32>>

\* A variant that stores the two totals in each other's place.
sk_info_swapped(rx, tx) == [rx |-> tx, tx |-> rx, reported |-> 0]

\* struct sk_info newInfo = {0}
sk_info(rx, tx) == [rx |-> rx, tx |-> tx, reported |-> 0]

udp_sendmsg_key(sk) ==
    sk_key(Lane0(sk.skc_rcv_saddr), Lane0(sk.skc_daddr), sk.skc_num,
           bswap16(sk.skc_dport), PROTOCOL_UDP, 0)

udp_recvmsg_key(sk) ==
    sk_key(Lane0(sk.skc_rcv_saddr), Lane0(sk.skc_daddr), sk.skc_num,
           bswap16(sk.skc_dport), PROTOCOL_UDP, 0)

\* Both loops bodies read skc_v6_rcv_saddr, for src_ip and for dst_ip.
udpv6_sendmsg_key(sk) ==
    sk_key(sk.skc_v6_rcv_saddr, sk.skc_v6_rcv_saddr, sk.skc_num,
           bswap16(sk.skc_dport), PROTOCOL_UDP, 1)

udpv6_recvmsg_key(sk) ==
    sk_key(sk.skc_v6_rcv_saddr, sk.skc_v6_rcv_saddr, sk.skc_num,
           bswap16(sk.skc_dport), PROTOCOL_UDP, 1)

\* struct bpf_sock: src_ip4/dst_ip4/src_ip6/dst_ip6 in network byte order,
\* src_port in host byte order, dst_port in network byte order.
sockops_key4(sk) ==
    sk_key(Lane0(sk.skc_rcv_saddr), Lane0(sk.skc_daddr), sk.skc_num,
           bswap16(sk.skc_dport), PROTOCOL_TCP, 0)

sockops_key6(sk) ==
    sk_key(sk.skc_v6_rcv_saddr, sk.skc_v6_daddr, sk.skc_num,
           bswap16(sk.skc_dport), PROTOCOL_TCP, 1)

BwKeys ==
    {udp_sendmsg_key(s) : s \in Udp4Socks} \cup {udpv6_sendmsg_key(s) : s \in Udp6Socks}
    \cup {sockops_key4(T4a), sockops_key6(T6a)}

\* ------------------------------------------------------------------- state
Procs == {1, 2}
\* Element slots of the preallocated map; one more than the capacity, so that
\* an insertion that fails to evict shows as an entry too many.
Elems == 1 .. (SOCKOPS_MAP_SIZE + 1)
\* The last element a scan of the map visits.
LastElem == SOCKOPS_MAP_SIZE
SockOps == {"BPF_SOCK_OPS_TCP_CONNECT_CB", "BPF_SOCK_OPS_TCP_LISTEN_CB",
            "BPF_SOCK_OPS_PASSIVE_ESTABLISHED_CB", "BPF_SOCK_OPS_STATE_CB"}

VARIABLES
    pm_bandwidth_map,   \* element -> [key, rx, tx, reported], the occupied elements
    lru,                \* occupied elements, least recently accessed first
    hooks,              \* hook invocation in flight on each execution context
    ret,                \* <<value>> the hook that returned last handed its caller
    ncalls,             \* hook invocations started
    skops,              \* per TCP socket: the bpf_sock_ops_cb_flags the hook has set
    scanPos,            \* consumer scan: the element visited next
    sums,               \* history: per key, the deltas handed to the datagram hooks
    evicted,            \* history: keys that were evicted at least once
    inserted,           \* history: the keys inserted, in the order of their insertion
    touched,            \* history: element written by a hook since the consumer last returned it
    pending,            \* history: element with a completed hook write not yet returned
    missed,             \* history: scans that ended while the element was pending
    hist,               \* which history the specification records
    rb_mem,             \* pm_connection_events: the record storage, slot -> Event
    rb_hdr,             \* pm_connection_events: records from consumer to producer position
    rb_next,            \* pm_connection_events: the slot the next reservation gets
    conn,               \* connect hook invocation in flight on each execution context
    last,               \* the record the consumer dequeued last
    dropped,            \* history: hook invocations whose reservation failed
    rb_tag,             \* history: per slot, the call that reserved the record in it
    got,                \* history: the tags of the records dequeued, in order
    pm_exec_map,        \* pm_exec_map: records from consumer to producer position
    ex_next,            \* pm_exec_map: the slot the next reservation gets
    ex_used,            \* pm_exec_map: per slot, whether its storage was written before
    exec,               \* enter_execve invocation in flight on each execution context
    called,             \* history: what socket_operations was called with last
    nfq,                \* nfqueue: the packet in the callback and what the callback did
    etw,                \* DNS trace listener: the event in EventRecordCallback
    heap,               \* DNS trace listener: the buffers malloc has handed out
    wdf                 \* driver helper: the call of pm_InitDriverObject

chanvars == <<rb_mem, rb_hdr, rb_next, conn, last, dropped, rb_tag, got>>
execvars == <<pm_exec_map, ex_next, ex_used, exec>>
winvars == <<etw, heap, wdf>>

NoKey == sk_key(ZERO128, ZERO128, ZERO16, ZERO16, 0, 0)
Idle == [pc |-> "idle", dir |-> "", key |-> NoKey, len |-> 0, info |-> NULL]
EmptyMap == [e \in {} |-> NULL]
NoRet == <<>>

\* --------------------------------------------------- BPF_MAP_TYPE_LRU_HASH
Present(m, key) == \E e \in DOMAIN m : m[e].key = key
ElemOf(m, key) == CHOOSE e \in DOMAIN m : m[e].key = key
KeysOf(m) == {m[e].key : e \in DOMAIN m}

\* bpf_map_lookup_elem: pointer to the value of the key, or NULL.
bpf_map_lookup_elem(m, key) == IF Present(m, key) THEN ElemOf(m, key) ELSE NULL

\* An access moves the element to the most recently used end.
LruTouch(l, e) == SelectSeq(l, LAMBDA x : x # e) \o <<e>>

\* The element evicted when the map is full: the least recently accessed one.
LruVictim_mru(l) == l[Len(l)]
LruVictim(l) == Head(l)

Entry(key, val) == [key |-> key, rx |-> val.rx, tx |-> val.tx, reported |-> val.reported]

FreeElem(m) == CHOOSE e \in Elems \ DOMAIN m : \A f \in Elems \ DOMAIN m : e <= f

\* bpf_map_update_elem(&map, &key, &val, BPF_ANY) on a map of max_entries
\* SOCKOPS_MAP_SIZE: overwrite the value of a present key; else take a free
\* element; else evict one element and reuse it.  Result: the map and the
\* recency list.
bpf_map_update_elem_noevict(m, l, key, val) ==
    IF Present(m, key)
    THEN [map |-> [m EXCEPT ![ElemOf(m, key)] = Entry(key, val)],
          lru |-> LruTouch(l, ElemOf(m, key))]
    ELSE [map |-> m @@ (FreeElem(m) :> Entry(key, val)),
          lru |-> l \o <<FreeElem(m)>>]
bpf_map_update_elem(m, l, key, val) ==
    IF Present(m, key)
    THEN [map |-> [m EXCEPT ![ElemOf(m, key)] = Entry(key, val)],
          lru |-> LruTouch(l, ElemOf(m, key))]
    ELSE IF Cardinality(DOMAIN m) < SOCKOPS_MAP_SIZE
    THEN [map |-> m @@ (FreeElem(m) :> Entry(key, val)),
          lru |-> l \o <<FreeElem(m)>>]
    ELSE [map |-> [m EXCEPT ![LruVictim(l)] = Entry(key, val)],
          lru |-> LruTouch(l, LruVictim(l))]

\* __sync_fetch_and_add(&info->rx/tx, len)
sync_fetch_and_add(v, len) == v + len

\* __sync_fetch_and_and(&info->reported, mask), on the one bit the field uses.
sync_fetch_and_or(v, mask) == IF v = 1 \/ mask = 1 THEN 1 ELSE 0
sync_fetch_and_and(v, mask) == IF v = 1 /\ mask = 1 THEN 1 ELSE 0

\* The statements of the datagram hooks after a successful lookup, in order.
UdpHitPath_flagfirst == <<"fetch_and", "fetch_add">>
UdpHitPath == <<"fetch_add", "fetch_and">>

\* What the consumer's scan does with one entry: an entry the hooks left
\* unreported (reported = 0) is returned and marked reported.
ScanMark_keep(v) == v
ScanMark(v) == 1
ScanReturns(m, e) == e \in DOMAIN m /\ m[e].reported = 0

\* ------------------------------------------------------- history variables
\* What a step did, read off the program's state before and after it.
Started(p) == hooks[p].pc = "idle" /\ hooks'[p].pc # "idle"
Finished(p) == hooks[p].pc # "idle" /\ hooks'[p].pc = "idle"
ConsumerStep == scanPos' # scanPos
ScanEnds == ConsumerStep /\ scanPos = LastElem
\* The element a finishing datagram hook wrote last.
Target(p) == IF hooks[p].pc = "miss" THEN ElemOf(pm_bandwidth_map', hooks[p].key)
             ELSE hooks[p].info
Written(e) == /\ e \in DOMAIN pm_bandwidth_map'
              /\ (e \notin DOMAIN pm_bandwidth_map \/ pm_bandwidth_map'[e] # pm_bandwidth_map[e])
Rekeyed(e) == /\ e \in DOMAIN pm_bandwidth_map
              /\ pm_bandwidth_map'[e].key # pm_bandwidth_map[e].key

NoHistory == UNCHANGED <<sums, evicted, inserted, touched, pending, missed>>
\* The consumer step returns the entry of element e.
Returned(e) == ConsumerStep /\ scanPos = e /\ ScanReturns(pm_bandwidth_map, e)

\* sums: the deltas of the datagram-hook calls started; evicted: the keys lost.
SumHistory ==
    /\ sums' = IF \E p \in Procs : Started(p)
               THEN LET p == CHOOSE q \in Procs : Started(q)
                        h == hooks'[p]
                    IN IF h.dir = "tx" THEN [sums EXCEPT ![h.key].tx = @ + h.len]
                       ELSE [sums EXCEPT ![h.key].rx = @ + h.len]
               ELSE sums
    /\ evicted' = evicted \cup (KeysOf(pm_bandwidth_map) \ KeysOf(pm_bandwidth_map'))
    /\ UNCHANGED <<inserted, touched, pending, missed>>

\* evicted and inserted: the keys that left and entered the map.
EvictHistory ==
    /\ evicted' = evicted \cup (KeysOf(pm_bandwidth_map) \ KeysOf(pm_bandwidth_map'))
    /\ inserted' = IF KeysOf(pm_bandwidth_map') \subseteq KeysOf(pm_bandwidth_map) THEN inserted
                   ELSE Append(inserted, CHOOSE k \in KeysOf(pm_bandwidth_map') :
                                             k \notin KeysOf(pm_bandwidth_map))
    /\ UNCHANGED <<sums, touched, pending, missed>>

\* touched, pending, missed: hook writes against the consumer's returns.
ScanHistory ==
    /\ touched' = [e \in Elems |->
                     IF ConsumerStep THEN touched[e] /\ ~Returned(e)
                     ELSE touched[e] \/ Written(e)]
    /\ pending' = [e \in Elems |->
                     IF ConsumerStep THEN pending[e] /\ ~Returned(e)
                     ELSE \/ pending[e]
                          \/ \E p \in Procs : Finished(p) /\ Target(p) = e
                          \/ (\A p \in Procs : hooks'[p] = hooks[p]) /\ Written(e)]
    /\ missed' = [e \in Elems |->
                     IF ConsumerStep
                     THEN IF Returned(e) THEN 0
                          ELSE IF ScanEnds /\ pending[e] /\ missed[e] < 2 THEN missed[e] + 1
                          ELSE missed[e]
                     ELSE IF Rekeyed(e) THEN 0 ELSE missed[e]]
    /\ UNCHANGED <<sums, evicted, inserted>>

\* The history a specification records is fixed by its initial state.
History ==
    /\ hist' = hist
    /\ CASE hist \in {"chan", "all", "live", "exec", "ops", "nfq", "etw", "wdf"} -> NoHistory
         [] hist = "sum" -> SumHistory
         [] hist \in {"evict", "life", "frame"} -> EvictHistory
         [] hist = "scan" -> ScanHistory

\* ------------------------------------------------- bandwidth.c: the hooks
\* return code;
Return(code) == ret' = <<code>>

\* Entry of a datagram hook: the key is built, then looked up; the branch on
\* info != NULL is taken.  The lookup marks the element as accessed.
Lookup(key, dir, len) ==
    [pc |-> IF bpf_map_lookup_elem(pm_bandwidth_map, key) # NULL THEN "hit1" ELSE "miss",
     dir |-> dir, key |-> key, len |-> len,
     info |-> bpf_map_lookup_elem(pm_bandwidth_map, key)]
Accessed(key) ==
    IF bpf_map_lookup_elem(pm_bandwidth_map, key) # NULL
    THEN LruTouch(lru, bpf_map_lookup_elem(pm_bandwidth_map, key)) ELSE lru
\* The hook invocations a run of the specification holds.
CallBudget ==
    CASE hist = "scan" -> MaxScanCalls
      [] hist = "exec" -> MaxExecCalls
      [] hist = "nfq" -> MaxPackets
      [] hist = "etw" -> MaxTraceEvents
      [] hist = "wdf" -> MaxLoads
      [] hist = "life" -> MaxScanCalls
      [] hist = "live" -> MaxLiveCalls
      [] OTHER -> MaxCalls
\* Under hist = "all", "life" and "exec" the hooks run one invocation at a time.
Alone(p) ==
    hist \in {"all", "life", "exec"} =>
        \A q \in Procs \ {p} :
            hooks[q].pc = "idle" /\ conn[q].pc = "idle" /\ exec[q].pc = "idle"
CanStart(p) ==
    hooks[p].pc = "idle" /\ conn[p].pc = "idle" /\ ncalls < CallBudget /\ Alone(p)

udp_sendmsg(p) ==
    \E sk \in SendSocks(hist), len \in Lens :
    /\ CanStart(p)
    /\ ncalls' = ncalls + 1
    /\ hooks' = [hooks EXCEPT ![p] = Lookup(udp_sendmsg_key(sk), "tx", len)]
    /\ lru' = Accessed(udp_sendmsg_key(sk))
    /\ UNCHANGED <<pm_bandwidth_map, ret, skops, scanPos, chanvars>>
    /\ History
    /\ UNCHANGED winvars
    /\ UNCHANGED nfq
    /\ UNCHANGED called
    /\ UNCHANGED execvars

udp_recvmsg(p) ==
    \E sk \in Udp4Socks, len \in Lens :
    /\ CanStart(p)
    /\ ncalls' = ncalls + 1
    /\ hooks' = [hooks EXCEPT ![p] = Lookup(udp_recvmsg_key(sk), "rx", len)]
    /\ lru' = Accessed(udp_recvmsg_key(sk))
    /\ UNCHANGED <<pm_bandwidth_map, ret, skops, scanPos, chanvars>>
    /\ History
    /\ UNCHANGED winvars
    /\ UNCHANGED nfq
    /\ UNCHANGED called
    /\ UNCHANGED execvars

udpv6_sendmsg(p) ==
    \E sk \in Udp6Socks, len \in Lens :
    /\ CanStart(p)
    /\ ncalls' = ncalls + 1
    /\ hooks' = [hooks EXCEPT ![p] = Lookup(udpv6_sendmsg_key(sk), "tx", len)]
    /\ lru' = Accessed(udpv6_sendmsg_key(sk))
    /\ UNCHANGED <<pm_bandwidth_map, ret, skops, scanPos, chanvars>>
    /\ History
    /\ UNCHANGED winvars
    /\ UNCHANGED nfq
    /\ UNCHANGED called
    /\ UNCHANGED execvars

udpv6_recvmsg(p) ==
    \E sk \in Udp6Socks, len \in Lens :
    /\ CanStart(p)
    /\ ncalls' = ncalls + 1
    /\ hooks' = [hooks EXCEPT ![p] = Lookup(udpv6_recvmsg_key(sk), "rx", len)]
    /\ lru' = Accessed(udpv6_recvmsg_key(sk))
    /\ UNCHANGED <<pm_bandwidth_map, ret, skops, scanPos, chanvars>>
    /\ History
    /\ UNCHANGED winvars
    /\ UNCHANGED nfq
    /\ UNCHANGED called
    /\ UNCHANGED execvars

\* The statement a hook with a non-NULL info executes next.
HitStmt(h) == UdpHitPath[IF h.pc = "hit1" THEN 1 ELSE 2]
HitNext(p) == IF hooks[p].pc = "hit1"
              THEN hooks' = [hooks EXCEPT ![p].pc = "hit2"] /\ UNCHANGED ret
              ELSE hooks' = [hooks EXCEPT ![p] = Idle] /\ Return(0)

\* info != NULL: __sync_fetch_and_add(&info->tx or rx, len) through the pointer.
UdpFetchAdd(p) ==
    /\ hooks[p].pc \in {"hit1", "hit2"}
    /\ HitStmt(hooks[p]) = "fetch_add"
    /\ LET h == hooks[p] IN
       pm_bandwidth_map' =
            IF h.dir = "tx"
            THEN [pm_bandwidth_map EXCEPT ![h.info].tx = sync_fetch_and_add(@, h.len)]
            ELSE [pm_bandwidth_map EXCEPT ![h.info].rx = sync_fetch_and_add(@, h.len)]
    /\ HitNext(p)
    /\ UNCHANGED <<lru, ncalls, skops, scanPos, chanvars>>
    /\ History
    /\ UNCHANGED winvars
    /\ UNCHANGED nfq
    /\ UNCHANGED called
    /\ UNCHANGED execvars

\* info != NULL: __sync_fetch_and_and(&info->reported, 0) through the pointer.
UdpFetchAnd(p) ==
    /\ hooks[p].pc \in {"hit1", "hit2"}
    /\ HitStmt(hooks[p]) = "fetch_and"
    /\ pm_bandwidth_map' =
         [pm_bandwidth_map EXCEPT ![hooks[p].info].reported = sync_fetch_and_and(@, 0)]
    /\ HitNext(p)
    /\ UNCHANGED <<lru, ncalls, skops, scanPos, chanvars>>
    /\ History
    /\ UNCHANGED winvars
    /\ UNCHANGED nfq
    /\ UNCHANGED called
    /\ UNCHANGED execvars

Updated(r) == pm_bandwidth_map' = r.map /\ lru' = r.lru

\* info == NULL: newInfo = {0}; newInfo.tx or rx = len; bpf_map_update_elem(BPF_ANY).
UdpUpdateElem(p) ==
    /\ hooks[p].pc = "miss"
    /\ LET h == hooks[p]
           newInfo == IF h.dir = "tx" THEN sk_info(0, h.len) ELSE sk_info(h.len, 0)
       IN Updated(bpf_map_update_elem(pm_bandwidth_map, lru, h.key, newInfo))
    /\ hooks' = [hooks EXCEPT ![p] = Idle]
    /\ Return(0)
    /\ UNCHANGED <<ncalls, skops, scanPos, chanvars>>
    /\ History
    /\ UNCHANGED winvars
    /\ UNCHANGED nfq
    /\ UNCHANGED called
    /\ UNCHANGED execvars

\* A variant that knows the connect callback only.
SetupOps_connect == {"BPF_SOCK_OPS_TCP_CONNECT_CB"}

SetupOps == {"BPF_SOCK_OPS_TCP_CONNECT_CB", "BPF_SOCK_OPS_TCP_LISTEN_CB",
             "BPF_SOCK_OPS_PASSIVE_ESTABLISHED_CB"}

\* bpf_sock_ops_cb_flags_set(skops, BPF_SOCK_OPS_ALL_CB_FLAGS): the callback
\* flags of the socket of this callback are set.
bpf_sock_ops_cb_flags_set_all(s, sk) == [t \in DOMAIN s |-> [cb_flags |-> 1]]
bpf_sock_ops_cb_flags_set(s, sk) == [s EXCEPT ![sk].cb_flags = 1]

\* The key socket_operations builds for a socket of family AF_INET or AF_INET6.
sockops_key(sk) == IF sk.skc_family = AF_INET THEN sockops_key4(sk) ELSE sockops_key6(sk)

\* SEC("sockops") socket_operations.  It holds one access to shared state, so
\* it is one step.  bytes_received and bytes_acked are the running totals of
\* the socket of this callback; the socket of a new connection on the same
\* addresses and ports starts again at 0.
\* The callback socket_operations was called with: skops->op, skops->sk,
\* skops->bytes_received and skops->bytes_acked (recorded under hist = "ops").
NoCall == [op |-> "", sk |-> TXa, sk_is_null |-> TRUE, bytes_received |-> 0, bytes_acked |-> 0]
Called(op, sk, sk_is_null, bytes_received, bytes_acked) ==
    called' = IF hist = "ops"
              THEN [op |-> op, sk |-> sk, sk_is_null |-> sk_is_null,
                    bytes_received |-> bytes_received, bytes_acked |-> bytes_acked]
              ELSE called

socket_operations(p) ==
    /\ CanStart(p)
    /\ ncalls' = ncalls + 1
    /\ hooks' = hooks
    /\ Return(0)
    /\ \/ \E op \in SetupOps, sk \in TcpSocks :
          \* bpf_sock_ops_cb_flags_set(skops, BPF_SOCK_OPS_ALL_CB_FLAGS); return 0
          /\ skops' = bpf_sock_ops_cb_flags_set(skops, sk)
          /\ Called(op, sk, FALSE, 0, 0)
          /\ UNCHANGED <<pm_bandwidth_map, lru>>
       \/ \E op \in SockOps \ SetupOps, sk \in TcpSocks \cup {TXa}, sk_is_null \in BOOLEAN,
             bytes_received \in TcpTotals, bytes_acked \in TcpTotals :
          /\ IF ~sk_is_null /\ sk.skc_family \in {AF_INET, AF_INET6}
             THEN Updated(bpf_map_update_elem(pm_bandwidth_map, lru, sockops_key(sk),
                                              sk_info(bytes_received, bytes_acked)))
             ELSE UNCHANGED <<pm_bandwidth_map, lru>>
          /\ Called(op, sk, sk_is_null, bytes_received, bytes_acked)
          /\ UNCHANGED skops
    /\ UNCHANGED <<scanPos, chanvars>>
    /\ History
    /\ UNCHANGED winvars
    /\ UNCHANGED nfq
    /\ UNCHANGED execvars

\* ------------------------------------------- the consumer's scan of the map
\* readAndClearReported(), one entry per step: an entry the hooks left
\* unreported (reported = 0) is returned and marked in the same atomic step.
\* After the last element the scan has ended and the next one begins.

readAndClearReported ==
    LET e == scanPos
        hit == ScanReturns(pm_bandwidth_map, e)
    IN /\ pm_bandwidth_map' =
            IF hit THEN [pm_bandwidth_map EXCEPT ![e].reported = ScanMark(@)]
            ELSE pm_bandwidth_map
       /\ scanPos' = IF e = LastElem THEN 1 ELSE e + 1
       /\ UNCHANGED <<lru, hooks, ret, ncalls, skops, chanvars>>
       /\ History
       /\ UNCHANGED winvars
       /\ UNCHANGED nfq
       /\ UNCHANGED called
       /\ UNCHANGED execvars

\* ------------------------------------------- programs/monitor.c: the events
Slots == 1 .. RingRecordsBound
Pids == {4321}

Event(saddr, daddr, sport, dport, pid, ipVersion, protocol, direction) ==
    [saddr |-> saddr, daddr |-> daddr, sport |-> sport, dport |-> dport, pid |-> pid,
     ipVersion |-> ipVersion, protocol |-> protocol, direction |-> direction]
\* The storage of a fresh ring buffer is zero-filled.
ZeroEvent == Event(ZERO128, ZERO128, ZERO16, ZERO16, ZERO32, 0, 0, 0)
NoConn == [pc |-> "idle", fn |-> "", sk |-> TXa, rec |-> NULL, pid |-> ZERO32]

\* bpf_get_current_pid_tgid() >> 32, as the u32 lies in memory.
bpf_get_current_pid_tgid_hi(pid) == LE32(pid)

\* bpf_skc_to_udp6_sock(): the socket if it is a UDP socket of family
\* AF_INET6, NULL otherwise.
bpf_skc_to_udp6_sock_fails(sk) == ~(sk.skc_family = AF_INET6 /\ sk.sk_protocol = UDP)

\* A variant that leaves the IP version of an IPv6 record unwritten.
tcp_connect_event_nov6(old, sk, pid) ==
    LET base == [old EXCEPT !.pid = bswap32(pid),
                            !.protocol = TCP,
                            !.direction = OUTBOUND,
                            !.sport = bswap16(sk.skc_num),
                            !.dport = sk.skc_dport]
    IN IF sk.skc_family = AF_INET
       THEN [base EXCEPT !.saddr[1] = bswap32(sk.skc_rcv_saddr),
                         !.daddr[1] = bswap32(sk.skc_daddr),
                         !.ipVersion = 4]
       ELSE IF sk.skc_family = AF_INET6
       THEN [base EXCEPT !.saddr = [i \in 1 .. 4 |-> bswap32(sk.skc_v6_rcv_saddr[i])],
                         !.daddr = [i \in 1 .. 4 |-> bswap32(sk.skc_v6_daddr[i])]]
       ELSE base

\* The fields tcp_connect writes into the reserved record old; the fields it
\* does not write keep what the storage held.
tcp_connect_event(old, sk, pid) ==
    LET base == [old EXCEPT !.pid = bswap32(pid),
                            !.protocol = TCP,
                            !.direction = OUTBOUND,
                            !.sport = bswap16(sk.skc_num),
                            !.dport = sk.skc_dport]
    IN IF sk.skc_family = AF_INET
       THEN [base EXCEPT !.saddr[1] = bswap32(sk.skc_rcv_saddr),
                         !.daddr[1] = bswap32(sk.skc_daddr),
                         !.ipVersion = 4]
       ELSE IF sk.skc_family = AF_INET6
       THEN [base EXCEPT !.saddr = [i \in 1 .. 4 |-> bswap32(sk.skc_v6_rcv_saddr[i])],
                         !.daddr = [i \in 1 .. 4 |-> bswap32(sk.skc_v6_daddr[i])],
                         !.ipVersion = 6]
       ELSE base

udp_protocol(sk) == IF sk.sk_protocol = IPPROTO_UDPLITE THEN UDPLite ELSE UDP

udp_v4_connect_event(old, sk, pid) ==
    [old EXCEPT !.pid = bswap32(pid),
                !.sport = bswap16(sk.skc_num),
                !.dport = sk.skc_dport,
                !.saddr[1] = bswap32(sk.skc_rcv_saddr),
                !.daddr[1] = bswap32(sk.skc_daddr),
                !.ipVersion = 4,
                !.protocol = udp_protocol(sk)]

udp_v6_connect_event(old, sk, pid) ==
    [old EXCEPT !.pid = bswap32(pid),
                !.sport = bswap16(sk.skc_num),
                !.dport = sk.skc_dport,
                !.saddr = [i \in 1 .. 4 |-> bswap32(sk.skc_v6_rcv_saddr[i])],
                !.daddr = [i \in 1 .. 4 |-> bswap32(sk.skc_v6_daddr[i])],
                !.ipVersion = 6,
                !.protocol = udp_protocol(sk)]

\* ------------------------------------------------------ BPF_MAP_TYPE_RINGBUF
\* sizeof(struct Event): 4 * 4 + 4 * 4 + 2 + 2 + 4 + 3 bytes, padded to the
\* alignment of u32.  A record takes 8 bytes of header and its data rounded
\* up to 8 bytes: 56 bytes, which does not divide the 1 << 24 bytes of the
\* ring, so that the records of one lap lie 8 bytes before those of the lap
\* before.
EventSize == 44
\* The header of a record that was submitted: its length, and its page
\* offset from the ring's bookkeeping pages (3 for the first data page).
RecLen == LE32(EventSize)
RecPgOff == LE32(3)

\* What the storage of a record dequeued earlier shows to a record that
\* lies 8 bytes before it: the data at offset o is what was at offset o - 8
\* of the old record, the first 8 bytes are the old header.
Shift8(old) ==
    IF old = ZeroEvent THEN ZeroEvent
    ELSE Event(<<RecLen, RecPgOff, old.saddr[1], old.saddr[2]>>,
               <<old.saddr[3], old.saddr[4], old.daddr[1], old.daddr[2]>>,
               <<old.daddr[3][1], old.daddr[3][2]>>,
               <<old.daddr[3][3], old.daddr[3][4]>>,
               old.daddr[4],
               old.sport[1], old.sport[2], old.dport[1])

\* bpf_ringbuf_reserve() does not clear the storage it hands out: it holds
\* what earlier records left there, in the same place or displaced.
StaleImages(old) == {old, Shift8(old)}

NoTag == [sk |-> TXa, id |-> 0, by |-> 0]
\* The ticket of a call and the context it runs on, recorded under hist = "chan".
Tag(p, sk) ==
    IF hist = "chan" THEN [sk |-> sk, id |-> ncalls + 1, by |-> p]
    ELSE [sk |-> sk, id |-> 0, by |-> 0]

\* The bytes a record takes in the ring: an 8-byte header and the data,
\* rounded up to 8 bytes.
RecordBytes == ((8 + EventSize + 7) \div 8) * 8
\* max_entries of pm_connection_events, scaled to RingRecordsBound records.
RingBytes == RingRecordsBound * RecordBytes

\* A variant that refuses one record too late.
RingFull_late(hdr) == Len(hdr) > RingRecordsBound
RingFull(hdr) == Len(hdr) >= RingRecordsBound
NextSlot_stuck(s) == s
NextSlot(s) == (s % RingRecordsBound) + 1
\* A variant that queues the new record before those that wait.
Reserved_front(hdr, next) ==
    [rec |-> next, hdr |-> <<[slot |-> next, busy |-> TRUE]>> \o hdr, next |-> NextSlot(next)]

\* A variant that hands out a record without marking it busy.
Reserved_idle(hdr, next) ==
    [rec |-> next, hdr |-> Append(hdr, [slot |-> next, busy |-> FALSE]), next |-> NextSlot(next)]

Reserved(hdr, next) ==
    [rec |-> next, hdr |-> Append(hdr, [slot |-> next, busy |-> TRUE]), next |-> NextSlot(next)]

\* A variant that makes room in a full ring by giving up the oldest record.
bpf_ringbuf_reserve_overwrite(hdr, next) ==
    IF RingFull(hdr) THEN Reserved(Tail(hdr), next) ELSE Reserved(hdr, next)

\* bpf_ringbuf_reserve(): NULL when the ring has no room, else the next slot,
\* marked busy, with whatever the storage held.
bpf_ringbuf_reserve(hdr, next) ==
    IF RingFull(hdr) THEN [rec |-> NULL, hdr |-> hdr, next |-> next]
    ELSE Reserved(hdr, next)

\* bpf_ringbuf_submit(): the record becomes visible to the consumer.
bpf_ringbuf_submit(hdr, rec) ==
    [i \in DOMAIN hdr |-> IF hdr[i].slot = rec THEN [hdr[i] EXCEPT !.busy = FALSE] ELSE hdr[i]]

\* ------------------------------------------- programs/monitor.c: the hooks
TcpConnSocks == {T4a, T6a, TXa}
Udp4ConnSocks == {U4a, U4l, U4z, U6a}
Udp6ConnSocks == {U6a, U6l, U6z, U4a}
bwvars == <<pm_bandwidth_map, lru, hooks, skops, scanPos>>
ConnectBudget == IF hist = "exec" THEN MaxExecCalls ELSE MaxEvents
CanConnect(p) ==
    hooks[p].pc = "idle" /\ conn[p].pc = "idle" /\ ncalls < ConnectBudget /\ Alone(p)

\* What a hook returns when bpf_ringbuf_reserve() gave it NULL.
ReturnOnFailedReserve_enomem == 0 - 12
ReturnOnFailedReserve == 0

\* A variant in which a hook that finds the ring full waits for room.
Reserve_wait(p, fn, sk, pid) ==
    LET r == bpf_ringbuf_reserve(rb_hdr, rb_next)
    IN /\ rb_hdr' = r.hdr
       /\ rb_next' = r.next
       /\ IF r.rec = NULL
          THEN /\ conn' = [conn EXCEPT ![p] = [pc |-> "waiting", fn |-> fn, sk |-> sk,
                                               rec |-> NULL,
                                               pid |-> bpf_get_current_pid_tgid_hi(pid)]]
               /\ dropped' = dropped + 1
               /\ UNCHANGED <<ret, rb_mem, rb_tag>>
          ELSE /\ conn' = [conn EXCEPT ![p] = [pc |-> "reserved", fn |-> fn, sk |-> sk,
                                               rec |-> r.rec,
                                               pid |-> bpf_get_current_pid_tgid_hi(pid)]]
               /\ \E img \in StaleImages(rb_mem[r.rec]) :
                      rb_mem' = [rb_mem EXCEPT ![r.rec] = img]
               /\ rb_tag' = [rb_tag EXCEPT ![r.rec] = Tag(p, sk)]
               /\ UNCHANGED <<ret, dropped>>

\* udp_info = bpf_ringbuf_reserve(...); if (!udp_info) return 0;
Reserve(p, fn, sk, pid) ==
    LET r == bpf_ringbuf_reserve(rb_hdr, rb_next)
    IN /\ rb_hdr' = r.hdr
       /\ rb_next' = r.next
       /\ IF r.rec = NULL
          THEN /\ Return(ReturnOnFailedReserve)
               /\ dropped' = dropped + 1
               /\ UNCHANGED <<conn, rb_mem, rb_tag>>
          ELSE /\ conn' = [conn EXCEPT ![p] = [pc |-> "reserved", fn |-> fn, sk |-> sk,
                                               rec |-> r.rec,
                                               pid |-> bpf_get_current_pid_tgid_hi(pid)]]
               /\ \E img \in StaleImages(rb_mem[r.rec]) :
                      rb_mem' = [rb_mem EXCEPT ![r.rec] = img]
               /\ rb_tag' = [rb_tag EXCEPT ![r.rec] = Tag(p, sk)]
               /\ UNCHANGED <<ret, dropped>>

\* An early return 0 before any reservation.
Ignore == Return(0) /\ UNCHANGED <<rb_hdr, rb_next, conn, dropped, rb_mem, rb_tag>>

tcp_connect(p) ==
    \E sk \in TcpConnSocks, pid \in Pids :
    /\ CanConnect(p)
    /\ ncalls' = ncalls + 1
    /\ Reserve(p, "tcp_connect", sk, pid)
    /\ UNCHANGED <<last, got, bwvars>>
    /\ History
    /\ UNCHANGED winvars
    /\ UNCHANGED nfq
    /\ UNCHANGED called
    /\ UNCHANGED execvars

udp_v4_connect(p) ==
    \E sk \in Udp4ConnSocks, pid \in Pids :
    /\ CanConnect(p)
    /\ ncalls' = ncalls + 1
    /\ IF sk.skc_family # AF_INET THEN Ignore
       ELSE IF sk.skc_dport = ZERO16 THEN Ignore
       ELSE Reserve(p, "udp_v4_connect", sk, pid)
    /\ UNCHANGED <<last, got, bwvars>>
    /\ History
    /\ UNCHANGED winvars
    /\ UNCHANGED nfq
    /\ UNCHANGED called
    /\ UNCHANGED execvars

udp_v6_connect(p) ==
    \E sk \in Udp6ConnSocks, pid \in Pids :
    /\ CanConnect(p)
    /\ ncalls' = ncalls + 1
    /\ IF sk.skc_family # AF_INET6 THEN Ignore
       ELSE IF sk.skc_dport = ZERO16 THEN Ignore
       ELSE IF bpf_skc_to_udp6_sock_fails(sk) THEN Ignore
       ELSE Reserve(p, "udp_v6_connect", sk, pid)
    /\ UNCHANGED <<last, got, bwvars>>
    /\ History
    /\ UNCHANGED winvars
    /\ UNCHANGED nfq
    /\ UNCHANGED called
    /\ UNCHANGED execvars

\* The rest of a hook that holds a reserved record: it writes the fields,
\* submits the record and returns 0.
tcp_connect_submit(p) ==
    /\ conn[p].pc = "reserved" /\ conn[p].fn = "tcp_connect"
    /\ rb_mem' = [rb_mem EXCEPT ![conn[p].rec] = tcp_connect_event(@, conn[p].sk, conn[p].pid)]
    /\ rb_hdr' = bpf_ringbuf_submit(rb_hdr, conn[p].rec)
    /\ conn' = [conn EXCEPT ![p] = NoConn]
    /\ Return(0)
    /\ UNCHANGED <<rb_next, last, dropped, rb_tag, got, ncalls, bwvars>>
    /\ History
    /\ UNCHANGED winvars
    /\ UNCHANGED nfq
    /\ UNCHANGED called
    /\ UNCHANGED execvars

udp_v4_connect_submit(p) ==
    /\ conn[p].pc = "reserved" /\ conn[p].fn = "udp_v4_connect"
    /\ rb_mem' = [rb_mem EXCEPT ![conn[p].rec] = udp_v4_connect_event(@, conn[p].sk, conn[p].pid)]
    /\ rb_hdr' = bpf_ringbuf_submit(rb_hdr, conn[p].rec)
    /\ conn' = [conn EXCEPT ![p] = NoConn]
    /\ Return(0)
    /\ UNCHANGED <<rb_next, last, dropped, rb_tag, got, ncalls, bwvars>>
    /\ History
    /\ UNCHANGED winvars
    /\ UNCHANGED nfq
    /\ UNCHANGED called
    /\ UNCHANGED execvars

udp_v6_connect_submit(p) ==
    /\ conn[p].pc = "reserved" /\ conn[p].fn = "udp_v6_connect"
    /\ rb_mem' = [rb_mem EXCEPT ![conn[p].rec] = udp_v6_connect_event(@, conn[p].sk, conn[p].pid)]
    /\ rb_hdr' = bpf_ringbuf_submit(rb_hdr, conn[p].rec)
    /\ conn' = [conn EXCEPT ![p] = NoConn]
    /\ Return(0)
    /\ UNCHANGED <<rb_next, last, dropped, rb_tag, got, ncalls, bwvars>>
    /\ History
    /\ UNCHANGED winvars
    /\ UNCHANGED nfq
    /\ UNCHANGED called
    /\ UNCHANGED execvars

\* The consumer dequeues the oldest record, unless a hook still holds it.
drain ==
    /\ rb_hdr # <<>>
    /\ ~Head(rb_hdr).busy
    /\ last' = rb_mem[Head(rb_hdr).slot]
    /\ rb_hdr' = Tail(rb_hdr)
    /\ got' = Append(got, rb_tag[Head(rb_hdr).slot])
    /\ rb_tag' = [rb_tag EXCEPT ![Head(rb_hdr).slot] = NoTag]
    /\ UNCHANGED <<rb_mem, rb_next, conn, dropped, ret, ncalls, bwvars>>
    /\ History
    /\ UNCHANGED winvars
    /\ UNCHANGED nfq
    /\ UNCHANGED called
    /\ UNCHANGED execvars

\* ------------------------------------------------- exec.c: enter_execve
\* #define ARGLEN 32
ARGLEN == ArgLenBound
\* The arguments a process is started with, argv[0] included.
Nargs == 0 .. (ARGLEN + 1)
NoExec == [pc |-> "idle", rec |-> NULL, i |-> 0, nargs |-> 0, readable |-> 0]

\* A record of pm_exec_map: the header bits of the ring buffer (busy,
\* discard), the fields of struct event_t the hook counts in (argc, and argv
\* as the number of entries copied), and as history the number of arguments
\* of the process, whether reading one of them failed, and the releases of
\* the record.
ExecRecord(slot, argc) ==
    [slot |-> slot, busy |-> TRUE, discard |-> FALSE, argc |-> argc, argv |-> 0,
     nargs |-> 0, faulted |-> FALSE, submits |-> 0, discards |-> 0]

\* bpf_ringbuf_reserve() does not clear the record: on storage that was
\* written before, the argc field holds what an older record left there.
Residue(used) == IF used THEN {0, 1} ELSE {0}

ExecAt(map, rec) == CHOOSE i \in DOMAIN map : map[i].slot = rec

\* bpf_ringbuf_submit(event, 0)
exec_submit(map, rec) ==
    [i \in DOMAIN map |->
       IF map[i].slot = rec
       THEN [map[i] EXCEPT !.busy = FALSE, !.submits = @ + 1] ELSE map[i]]

\* A variant that leaves the record as it is.
bpf_ringbuf_discard_none(map, rec) == map

\* bpf_ringbuf_discard(event, 0)
bpf_ringbuf_discard(map, rec) ==
    [i \in DOMAIN map |->
       IF map[i].slot = rec
       THEN [map[i] EXCEPT !.busy = FALSE, !.discard = TRUE, !.discards = @ + 1]
       ELSE map[i]]

ExecCanStart(p) == exec[p].pc = "idle" /\ CanStart(p)

\* event = bpf_ringbuf_reserve(&pm_exec_map, sizeof(struct event_t), 0);
\* if (!event) return 1;  The process has n arguments, of which the first
\* `readable` can be read from its memory.
enter_execve(p) ==
    \E n \in Nargs, readable \in Nargs, argc \in Residue(ex_used[ex_next]) :
    /\ ExecCanStart(p)
    /\ readable <= n
    /\ ncalls' = ncalls + 1
    /\ IF RingFull(pm_exec_map)
       THEN /\ Return(1)
            /\ UNCHANGED execvars
       ELSE /\ pm_exec_map' = Append(pm_exec_map,
                                     [ExecRecord(ex_next, argc) EXCEPT !.nargs = n])
            /\ ex_next' = (ex_next % RingRecordsBound) + 1
            /\ ex_used' = [ex_used EXCEPT ![ex_next] = TRUE]
            /\ exec' = [exec EXCEPT ![p] = [pc |-> "comm", rec |-> ex_next, i |-> 0,
                                           nargs |-> n, readable |-> readable]]
            /\ UNCHANGED ret
    /\ UNCHANGED <<bwvars, chanvars>>
    /\ History
    /\ UNCHANGED winvars
    /\ UNCHANGED nfq
    /\ UNCHANGED called

\* ret = bpf_get_current_comm(...); if (ret) { discard; return 1; }
exec_comm(p) ==
    \E failed \in BOOLEAN :
    /\ exec[p].pc = "comm"
    /\ IF failed
       THEN /\ pm_exec_map' = bpf_ringbuf_discard(pm_exec_map, exec[p].rec)
            /\ exec' = [exec EXCEPT ![p] = NoExec]
            /\ Return(1)
       ELSE /\ exec' = [exec EXCEPT ![p].pc = "filename"]
            /\ UNCHANGED <<pm_exec_map, ret>>
    /\ UNCHANGED <<ex_next, ex_used, ncalls, bwvars, chanvars>>
    /\ History
    /\ UNCHANGED winvars
    /\ UNCHANGED nfq
    /\ UNCHANGED called

\* ret = bpf_probe_read_user_str(event->filename, ...);
\* if (ret < 0) { discard; return 1; }
exec_filename(p) ==
    \E failed \in BOOLEAN :
    /\ exec[p].pc = "filename"
    /\ IF failed
       THEN /\ pm_exec_map' = bpf_ringbuf_discard(pm_exec_map, exec[p].rec)
            /\ exec' = [exec EXCEPT ![p] = NoExec]
            /\ Return(1)
       ELSE /\ exec' = [exec EXCEPT ![p].pc = "argv"]
            /\ UNCHANGED <<pm_exec_map, ret>>
    /\ UNCHANGED <<ex_next, ex_used, ncalls, bwvars, chanvars>>
    /\ History
    /\ UNCHANGED winvars
    /\ UNCHANGED nfq
    /\ UNCHANGED called

\* One pass of for (s32 i = 0; i < ARGLEN; i++): goto out when argv[i] cannot
\* be read or is the terminating NULL, else the argument is copied and
\* event->argc++.  When the loop ends by its condition, event->argc++ once more.
exec_argv(p) ==
    LET e == exec[p]
        k == ExecAt(pm_exec_map, e.rec)
    IN /\ e.pc = "argv"
       /\ IF e.i < ARGLEN
          THEN IF e.i >= e.readable
               THEN /\ exec' = [exec EXCEPT ![p].pc = "out"]
                    /\ pm_exec_map' = [pm_exec_map EXCEPT ![k].faulted = e.i < e.nargs]
               ELSE /\ pm_exec_map' = [pm_exec_map EXCEPT ![k].argv = @ + 1,
                                                          ![k].argc = @ + 1]
                    /\ exec' = [exec EXCEPT ![p].i = @ + 1]
          ELSE /\ pm_exec_map' = [pm_exec_map EXCEPT ![k].argc = @ + 1]
               /\ exec' = [exec EXCEPT ![p].pc = "out"]
       /\ UNCHANGED <<ex_next, ex_used, ret, ncalls, bwvars, chanvars>>
       /\ History
       /\ UNCHANGED winvars
       /\ UNCHANGED nfq
       /\ UNCHANGED called

\* out: bpf_ringbuf_submit(event, 0); return 0;
exec_out(p) ==
    /\ exec[p].pc = "out"
    /\ pm_exec_map' = exec_submit(pm_exec_map, exec[p].rec)
    /\ exec' = [exec EXCEPT ![p] = NoExec]
    /\ Return(0)
    /\ UNCHANGED <<ex_next, ex_used, ncalls, bwvars, chanvars>>
    /\ History
    /\ UNCHANGED winvars
    /\ UNCHANGED nfq
    /\ UNCHANGED called

InitExec ==
    /\ pm_exec_map = <<>>
    /\ ex_next = 1
    /\ ex_used = [i \in Slots |-> FALSE]
    /\ exec = [p \in Procs |-> NoExec]

\* pm_exec_map after enter_execve has submitted the event of a process with
\* one argument: the consumer has read it, or has not run yet.
InitExecUsed ==
    /\ pm_exec_map \in {<<>>, <<[slot |-> 1, busy |-> FALSE, discard |-> FALSE, argc |-> 1,
                                 argv |-> 1, nargs |-> 1, faulted |-> FALSE,
                                 submits |-> 1, discards |-> 0]>>}
    /\ ex_next = (1 % RingRecordsBound) + 1
    /\ ex_used = [i \in Slots |-> i = 1]
    /\ exec = [p \in Procs |-> NoExec]

\* ------------------------------------------- nfqueue.c: nfqueue_cb_new
\* sizeof(struct iphdr), sizeof(struct tcphdr), sizeof(struct udphdr)
SizeofIphdr == 20
SizeofTcphdr == 20
SizeofUdphdr == 8
IPPROTO_TCP == TCP
IPPROTO_UDP == UDP
IPPROTO_ICMP == IPPROTO_TCP - 5

\* What nfq_get_payload() returns: the length of the payload, or -1.
PayloadLens == {0 - 1, 0, 19, 20, 28, 39, 40, 44}
\* The 4-bit fields version, ihl and doff, and the protocol byte of a payload.
Versions == {4, 6}
HeaderWords == {0, 5, 6}
Protocols == {IPPROTO_TCP, IPPROTO_UDP, IPPROTO_ICMP}

\* Byte ranges (offset of the first byte, offset after the last byte) of the
\* header fields in the payload.  struct iphdr: version/ihl 0, tos 1, ttl 8,
\* protocol 9, saddr 12..16, daddr 16..20.  struct tcphdr and udphdr: source 0,
\* dest 2, tcp doff 12, tcp check 16..18, udp check 6..8.  struct ipv6hdr:
\* saddr 8..24, daddr 24..40.
IpFieldsEnd == 10
Ip4AddrsEnd == 20
Ip6AddrsEnd == 40
TcpDoffEnd == 13
TcpFieldsEnd == 18
UdpFieldsEnd == 8

\* a < b where the int a is converted to the unsigned type of b (size_t or
\* uint32_t): a negative a becomes larger than every header size.
LessUnsigned(a, b) == a >= 0 /\ a < b

Max2(a, b) == IF a > b THEN a ELSE b

NoPacket == [pc |-> "idle", ph_null |-> FALSE, len |-> 0, version |-> 4, ihl |-> 0,
             protocol |-> IPPROTO_ICMP, doff |-> 0,
             ret |-> 0, verdicts |-> 0, read |-> 0, handed |-> 0]

\* The callback from its entry to its return.  ret: the value returned;
\* verdicts: the calls of nfq_set_verdict2; read: the payload bytes 0 .. read-1
\* hold every header field the callback has read; handed: the payload bytes
\* 0 .. handed-1 hold the addresses saddr and daddr point to.
Returns(pkt, code, verdicts, read, handed) ==
    [pkt EXCEPT !.pc = "returned", !.ret = code, !.verdicts = verdicts,
                !.read = read, !.handed = handed]

\* if (len < sizeof(hdr)) return 0;
Short(pkt, read) == Returns(pkt, 0, 0, read, 0)

cb_ipv4(pkt) ==
    LET ipsz == pkt.ihl * 4
        len == pkt.len - ipsz
        tcpsz == pkt.doff * 4
    IN IF LessUnsigned(pkt.len, ipsz) THEN Short(pkt, IpFieldsEnd)
       ELSE IF pkt.protocol = IPPROTO_TCP
       THEN IF LessUnsigned(len, SizeofTcphdr) THEN Short(pkt, IpFieldsEnd)
            ELSE IF LessUnsigned(len, tcpsz)
            THEN Short(pkt, Max2(IpFieldsEnd, ipsz + TcpDoffEnd))
            ELSE Returns(pkt, 0, 1, Max2(IpFieldsEnd, ipsz + TcpFieldsEnd), Ip4AddrsEnd)
       ELSE IF pkt.protocol = IPPROTO_UDP
       THEN IF LessUnsigned(len, SizeofUdphdr) THEN Short(pkt, IpFieldsEnd)
            ELSE Returns(pkt, 0, 1, Max2(IpFieldsEnd, ipsz + UdpFieldsEnd), Ip4AddrsEnd)
       ELSE Returns(pkt, 0, 1, IpFieldsEnd, Ip4AddrsEnd)

\* The else branch of if (ip->version == 4): the payload is taken for a
\* struct ipv6hdr whatever its length.
cb_ipv6(pkt) == Returns(pkt, 0, 1, IpFieldsEnd, Ip6AddrsEnd)

cb_result(pkt) ==
    IF pkt.ph_null THEN Returns(pkt, 1, 0, 0, 0)
    ELSE IF LessUnsigned(pkt.len, SizeofIphdr) THEN Short(pkt, 0)
    ELSE IF pkt.version = 4 THEN cb_ipv4(pkt)
    ELSE cb_ipv6(pkt)

\* nfq_handle_packet(h, buf, rv): a packet of the queue is handed to the callback.
nfq_handle_packet ==
    \E ph_null \in BOOLEAN, len \in PayloadLens, version \in Versions,
       ihl \in HeaderWords, protocol \in Protocols, doff \in HeaderWords :
    /\ nfq.pc # "called"
    /\ ncalls < CallBudget
    \* without a packet header nothing else of the packet is looked at
    /\ ph_null => len = 0 /\ version = 4 /\ ihl = 0 /\ protocol = IPPROTO_ICMP /\ doff = 0
    /\ ncalls' = ncalls + 1
    /\ nfq' = [NoPacket EXCEPT !.pc = "called", !.ph_null = ph_null, !.len = len,
                               !.version = version, !.ihl = ihl,
                               !.protocol = protocol, !.doff = doff]
    /\ UNCHANGED <<ret, bwvars, chanvars, execvars, called>>
    /\ History
    /\ UNCHANGED winvars

nfqueue_cb_new ==
    /\ nfq.pc = "called"
    /\ nfq' = cb_result(nfq)
    /\ Return(cb_result(nfq).ret)
    /\ UNCHANGED <<ncalls, bwvars, chanvars, execvars, called>>
    /\ History
    /\ UNCHANGED winvars

\* ------------------------------------- dllmain.cpp: the DNS trace listener
Props == {"QueryResults", "QueryName"}
NoTraceEvent == [pc |-> "idle", prop |-> "QueryResults", resultValue |-> NULL,
                 domainValue |-> NULL,
                 ok |-> [q \in Props |-> FALSE], callbacks |-> 0]

\* malloc(PropertySize): a new buffer, named by its place in heap.  frees
\* counts the calls of free() on it.
malloc(h) == Append(h, [live |-> TRUE, frees |-> 0])
\* free(p): nothing for a null pointer.
free(h, ptr) ==
    IF ptr = NULL THEN h
    ELSE [h EXCEPT ![ptr] = [live |-> FALSE, frees |-> @.frees + 1]]

\* *pData of the getPropertyValue call in progress: &resultValue for
\* QueryResults (line 76), &domainValue for QueryName (line 77).
pData(e) == IF e.prop = "QueryResults" THEN e.resultValue ELSE e.domainValue
SetpData(e, ptr) ==
    IF e.prop = "QueryResults" THEN [e EXCEPT !.resultValue = ptr]
    ELSE [e EXCEPT !.domainValue = ptr]

\* getPropertyValue returns: the second call follows the first, the test of
\* line 81 follows the second.
GpReturn(e, value) ==
    [e EXCEPT !.ok[e.prop] = value,
              !.prop = "QueryName",
              !.pc = IF e.prop = "QueryResults" THEN "size" ELSE "check"]

\* A variant that leaves the pointer to the freed buffer in *pData.
AfterFree_dangling(ptr) == ptr
\* free(*pData); *pData = NULL;
AfterFree(ptr) == NULL

\* PBYTE resultValue = NULL; PBYTE domainValue = NULL; then the first call of
\* getPropertyValue is entered.
EventRecordCallback ==
    /\ etw.pc \in {"idle", "returned"}
    /\ ncalls < CallBudget
    /\ ncalls' = ncalls + 1
    /\ etw' = [NoTraceEvent EXCEPT !.pc = "size"]
    /\ UNCHANGED <<heap, wdf, ret, bwvars, chanvars, execvars, called, nfq>>
    /\ History

\* status = TdhGetPropertySize(...); if (ERROR_SUCCESS != status) return false;
TdhGetPropertySize ==
    \E failed \in BOOLEAN :
    /\ etw.pc = "size"
    /\ etw' = IF failed THEN GpReturn(etw, FALSE) ELSE [etw EXCEPT !.pc = "malloc"]
    /\ UNCHANGED <<heap, wdf, ncalls, ret, bwvars, chanvars, execvars, called, nfq>>
    /\ History

\* *pData = (PBYTE)malloc(PropertySize); if (NULL == *pData) return false;
getPropertyValue_malloc ==
    \E failed \in BOOLEAN :
    /\ etw.pc = "malloc"
    /\ IF failed
       THEN /\ etw' = GpReturn(SetpData(etw, NULL), FALSE)
            /\ UNCHANGED heap
       ELSE /\ heap' = malloc(heap)
            /\ etw' = [SetpData(etw, Len(heap) + 1) EXCEPT !.pc = "read"]
    /\ UNCHANGED <<wdf, ncalls, ret, bwvars, chanvars, execvars, called, nfq>>
    /\ History

\* status = TdhGetProperty(...); on failure free(*pData), *pData = NULL and
\* return false; else return true.
TdhGetProperty ==
    \E failed \in BOOLEAN :
    /\ etw.pc = "read"
    /\ IF failed
       THEN /\ heap' = free(heap, pData(etw))
            /\ etw' = GpReturn(SetpData(etw, AfterFree(pData(etw))), FALSE)
       ELSE /\ etw' = GpReturn(etw, TRUE)
            /\ UNCHANGED heap
    /\ UNCHANGED <<wdf, ncalls, ret, bwvars, chanvars, execvars, called, nfq>>
    /\ History

\* if (resultValue != NULL && domainValue != NULL) state->callback(...);
state_callback ==
    /\ etw.pc = "check"
    /\ etw' = [etw EXCEPT !.pc = "free",
                          !.callbacks = IF etw.resultValue # NULL /\ etw.domainValue # NULL
                                        THEN @ + 1 ELSE @]
    /\ UNCHANGED <<heap, wdf, ncalls, ret, bwvars, chanvars, execvars, called, nfq>>
    /\ History

\* free(resultValue); free(domainValue); and the callback returns.
EventRecordCallback_free ==
    /\ etw.pc = "free"
    /\ heap' = free(free(heap, etw.resultValue), etw.domainValue)
    /\ etw' = [etw EXCEPT !.pc = "returned"]
    /\ UNCHANGED <<wdf, ncalls, ret, bwvars, chanvars, execvars, called, nfq>>
    /\ History

\* ------------------------------------- helper.c: pm_InitDriverObject
STATUS_SUCCESS == 0
\* A success status other than STATUS_SUCCESS.
STATUS_WAIT_1 == STATUS_SUCCESS + 1
STATUS_UNSUCCESSFUL == 0 - 1073741823
STATUS_INSUFFICIENT_RESOURCES == 0 - 1073741670
Statuses == {STATUS_SUCCESS, STATUS_WAIT_1, STATUS_UNSUCCESSFUL, STATUS_INSUFFICIENT_RESOURCES}
\* #define NT_SUCCESS(Status) (((NTSTATUS)(Status)) >= 0)
NT_SUCCESS(status) == status >= 0

\* trace: the framework calls made, each with the status it gave (for
\* WdfControlDeviceInitAllocate the status the function makes of its result);
\* deviceInit: the WDFDEVICE_INIT structure (none, allocated, consumed by the
\* created device, freed).
NoLoad == [pc |-> "idle", trace |-> <<>>, status |-> STATUS_SUCCESS, deviceInit |-> "none"]

WdfCall(w, call, status) ==
    [w EXCEPT !.trace = Append(@, [call |-> call, status |-> status])]
\* return status;
WdfReturn(w, status) == [w EXCEPT !.pc = "returned", !.status = status]

\* A variant that returns without freeing the structure.
DeviceCreateFailed_leak(w, status) == WdfReturn(w, status)
\* if (!NT_SUCCESS(status)) { WdfDeviceInitFree(deviceInit); return status; }
DeviceCreateFailed(w, status) ==
    WdfReturn([WdfCall(w, "WdfDeviceInitFree", STATUS_SUCCESS) EXCEPT !.deviceInit = "freed"], status)

\* The status pm_InitDriverObject hands its caller when the step returns.
ReturnsStatus == ret' = IF wdf'.pc = "returned" THEN <<wdf'.status>> ELSE ret

pm_InitDriverObject ==
    /\ wdf.pc \in {"idle", "returned"}
    /\ ncalls < CallBudget
    /\ ncalls' = ncalls + 1
    /\ wdf' = [NoLoad EXCEPT !.pc = "WdfDriverCreate"]
    /\ UNCHANGED <<etw, heap, ret, bwvars, chanvars, execvars, called, nfq>>
    /\ History

\* NTSTATUS status = WdfDriverCreate(...); if (!NT_SUCCESS(status)) return status;
WdfDriverCreate ==
    \E status \in Statuses :
    /\ wdf.pc = "WdfDriverCreate"
    /\ wdf' = IF ~NT_SUCCESS(status)
              THEN WdfReturn(WdfCall(wdf, "WdfDriverCreate", status), status)
              ELSE [WdfCall(wdf, "WdfDriverCreate", status)
                       EXCEPT !.pc = "WdfControlDeviceInitAllocate", !.status = status]
    /\ ReturnsStatus
    /\ UNCHANGED <<etw, heap, ncalls, bwvars, chanvars, execvars, called, nfq>>
    /\ History

\* deviceInit = WdfControlDeviceInitAllocate(...);
\* if (!deviceInit) return STATUS_INSUFFICIENT_RESOURCES;
WdfControlDeviceInitAllocate ==
    \E allocated \in BOOLEAN :
    /\ wdf.pc = "WdfControlDeviceInitAllocate"
    /\ wdf' = IF ~allocated
              THEN WdfReturn(WdfCall(wdf, "WdfControlDeviceInitAllocate", STATUS_INSUFFICIENT_RESOURCES),
                             STATUS_INSUFFICIENT_RESOURCES)
              ELSE [WdfCall(wdf, "WdfControlDeviceInitAllocate", STATUS_SUCCESS)
                       EXCEPT !.pc = "WdfDeviceCreate", !.deviceInit = "allocated"]
    /\ ReturnsStatus
    /\ UNCHANGED <<etw, heap, ncalls, bwvars, chanvars, execvars, called, nfq>>
    /\ History

\* status = WdfDeviceCreate(&deviceInit, objectAttributes, device);
WdfDeviceCreate ==
    \E status \in Statuses :
    /\ wdf.pc = "WdfDeviceCreate"
    /\ wdf' = IF ~NT_SUCCESS(status)
              THEN DeviceCreateFailed(WdfCall(wdf, "WdfDeviceCreate", status), status)
              ELSE [WdfCall(wdf, "WdfDeviceCreate", status)
                       EXCEPT !.pc = "WdfDeviceCreateSymbolicLink", !.status = status,
                              !.deviceInit = "consumed"]
    /\ ReturnsStatus
    /\ UNCHANGED <<etw, heap, ncalls, bwvars, chanvars, execvars, called, nfq>>
    /\ History

\* status = WdfDeviceCreateSymbolicLink(*device, &deviceSymlink);
\* if (!NT_SUCCESS(status)) return status;
WdfDeviceCreateSymbolicLink ==
    \E status \in Statuses :
    /\ wdf.pc = "WdfDeviceCreateSymbolicLink"
    /\ wdf' = IF ~NT_SUCCESS(status)
              THEN WdfReturn(WdfCall(wdf, "WdfDeviceCreateSymbolicLink", status), status)
              ELSE [WdfCall(wdf, "WdfDeviceCreateSymbolicLink", status)
                       EXCEPT !.pc = "WdfControlFinishInitializing", !.status = status]
    /\ ReturnsStatus
    /\ UNCHANGED <<etw, heap, ncalls, bwvars, chanvars, execvars, called, nfq>>
    /\ History

\* WdfControlFinishInitializing(*device); return STATUS_SUCCESS;
WdfControlFinishInitializing ==
    /\ wdf.pc = "WdfControlFinishInitializing"
    /\ wdf' = WdfReturn(WdfCall(wdf, "WdfControlFinishInitializing", STATUS_SUCCESS), STATUS_SUCCESS)
    /\ ReturnsStatus
    /\ UNCHANGED <<etw, heap, ncalls, bwvars, chanvars, execvars, called, nfq>>
    /\ History

\* ------------------------------------------------------------ specification
vars == <<pm_bandwidth_map, lru, hooks, ret, ncalls, skops, scanPos, sums,
          evicted, inserted, touched, pending, missed, hist, chanvars, execvars, called, nfq, winvars>>

InitBw ==
    /\ pm_bandwidth_map = EmptyMap
    /\ lru = <<>>
    /\ skops = [s \in TcpSocks |-> [cb_flags |-> 0]]
    /\ scanPos = 1
    /\ sums = [k \in BwKeys |-> [rx |-> 0, tx |-> 0]]
    /\ evicted = {}
    /\ inserted = <<>>
    /\ touched = [e \in Elems |-> FALSE]
    /\ pending = [e \in Elems |-> FALSE]
    /\ missed = [e \in Elems |-> 0]

\* No hook has been called and the consumer has dequeued nothing.
InitCalls ==
    /\ etw = NoTraceEvent
    /\ heap = <<>>
    /\ wdf = NoLoad
    /\ nfq = NoPacket
    /\ called = NoCall
    /\ hooks = [p \in Procs |-> Idle]
    /\ ret = NoRet
    /\ ncalls = 0
    /\ conn = [p \in Procs |-> NoConn]
    /\ last = ZeroEvent
    /\ dropped = 0
    /\ got = <<>>

InitHooks == InitCalls /\ InitExec

\* The ring as it is created: empty and zero-filled.
InitRing ==
    /\ rb_mem = [i \in Slots |-> ZeroEvent]
    /\ rb_hdr = <<>>
    /\ rb_next = 1
    /\ rb_tag = [i \in Slots |-> NoTag]

\* The ring after tcp_connect has filled it up to the last record and the
\* consumer has not run.
InitRingLast ==
    /\ rb_mem = [i \in Slots |->
                   IF i = RingRecordsBound THEN ZeroEvent
                   ELSE tcp_connect_event(ZeroEvent, T4a,
                            bpf_get_current_pid_tgid_hi(CHOOSE pid \in Pids : TRUE))]
    /\ rb_hdr = [i \in 1 .. (RingRecordsBound - 1) |-> [slot |-> i, busy |-> FALSE]]
    /\ rb_next = RingRecordsBound
    /\ rb_tag = [i \in Slots |->
                   IF i = RingRecordsBound THEN NoTag ELSE [sk |-> T4a, id |-> 0, by |-> 0]]

InitProcs == InitHooks /\ InitRing

InitSum == InitBw /\ InitProcs /\ hist = "sum"
InitMap == InitBw /\ InitProcs /\ hist = "evict"
InitScan == InitBw /\ InitProcs /\ hist = "scan"

\* The datagram hooks alone.
NextUdp ==
    \/ \E p \in Procs : udp_sendmsg(p)
    \/ \E p \in Procs : udp_recvmsg(p)
    \/ \E p \in Procs : udpv6_sendmsg(p)
    \/ \E p \in Procs : udpv6_recvmsg(p)
    \/ \E p \in Procs : UdpFetchAdd(p)
    \/ \E p \in Procs : UdpFetchAnd(p)
    \/ \E p \in Procs : UdpUpdateElem(p)

\* All hooks of bandwidth.c.
NextMap ==
    \/ NextUdp
    \/ \E p \in Procs : socket_operations(p)

\* All hooks of bandwidth.c and the consumer's scan.
NextScan ==
    \/ NextMap
    \/ readAndClearReported

\* The datagram hooks, with the history of deltas and evictions.
SpecSum == InitSum /\ [][NextUdp]_vars
\* The hooks of bandwidth.c, with the history of insertions and evictions.
SpecMap == InitMap /\ [][NextMap]_vars
\* The hooks of bandwidth.c and the consumer, with the history of writes and returns.
SpecScan == InitScan /\ [][NextScan]_vars
\* The flows of the first calls of a run that fills the map, in call order.
FirstKeys == <<udp_sendmsg_key(U4a), udp_sendmsg_key(U4b), sockops_key(T4a),
               sockops_key(T6a), udpv6_sendmsg_key(U6a)>>
\* The map and its recency list after n calls that sent one byte each on the
\* first n of these flows.
RECURSIVE Filled(_)
Filled(n) ==
    IF n = 0 THEN [map |-> EmptyMap, lru |-> <<>>]
    ELSE bpf_map_update_elem(Filled(n - 1).map, Filled(n - 1).lru, FirstKeys[n], sk_info(0, 1))

\* The state in which SOCKOPS_MAP_SIZE + 1 flows have sent once each: the map
\* is full and the flow of the first call has been evicted.
InitMapFull ==
    /\ pm_bandwidth_map = Filled(SOCKOPS_MAP_SIZE + 1).map
    /\ lru = Filled(SOCKOPS_MAP_SIZE + 1).lru
    /\ skops = [s \in TcpSocks |-> [cb_flags |-> 0]]
    /\ scanPos = 1
    /\ sums = [k \in BwKeys |-> [rx |-> 0, tx |-> 0]]
    /\ evicted = {FirstKeys[1]}
    /\ inserted = SubSeq(FirstKeys, 1, SOCKOPS_MAP_SIZE + 1)
    /\ touched = [e \in Elems |-> FALSE]
    /\ pending = [e \in Elems |-> FALSE]
    /\ missed = [e \in Elems |-> 0]

InitFull == InitProcs /\ InitMapFull

\* The hooks of bandwidth.c, one invocation at a time, and the consumer, from
\* the full map.
InitLife == InitFull /\ hist = "life"
SpecLife == InitLife /\ [][NextScan]_vars
\* The hooks of bandwidth.c on two CPUs, from the full map.
InitFrame == InitFull /\ hist = "frame"
SpecFrame == InitFrame /\ [][NextMap]_vars
\* socket_operations on a full table, with what it was called with on record.
InitOps == InitFull /\ hist = "ops"
NextOps ==
    \/ \E p \in Procs : socket_operations(p)
    \/ \E p \in Procs : udp_sendmsg(p)
    \/ \E p \in Procs : UdpFetchAdd(p)
    \/ \E p \in Procs : UdpFetchAnd(p)
    \/ \E p \in Procs : UdpUpdateElem(p)
SpecOps == InitOps /\ [][NextOps]_vars

\* The nfqueue callback on the packets of a queue.
InitNfq == InitBw /\ InitProcs /\ hist = "nfq"
NextNfq == nfq_handle_packet \/ nfqueue_cb_new
SpecNfq == InitNfq /\ [][NextNfq]_vars

\* The DNS trace listener on the events of a trace session.
InitEtw == InitBw /\ InitProcs /\ hist = "etw"
NextEtw ==
    \/ EventRecordCallback
    \/ TdhGetPropertySize
    \/ getPropertyValue_malloc
    \/ TdhGetProperty
    \/ state_callback
    \/ EventRecordCallback_free
SpecEtw == InitEtw /\ [][NextEtw]_vars

\* pm_InitDriverObject as the driver entry calls it.
InitWdf == InitBw /\ InitProcs /\ hist = "wdf"
NextWdf ==
    \/ pm_InitDriverObject
    \/ WdfDriverCreate
    \/ WdfControlDeviceInitAllocate
    \/ WdfDeviceCreate
    \/ WdfDeviceCreateSymbolicLink
    \/ WdfControlFinishInitializing
SpecWdf == InitWdf /\ [][NextWdf]_vars

InitMon == InitBw /\ InitProcs /\ hist = "chan"

NextConnect ==
    \/ \E p \in Procs : tcp_connect(p)
    \/ \E p \in Procs : udp_v4_connect(p)
    \/ \E p \in Procs : udp_v6_connect(p)
    \/ \E p \in Procs : tcp_connect_submit(p)
    \/ \E p \in Procs : udp_v4_connect_submit(p)
    \/ \E p \in Procs : udp_v6_connect_submit(p)

NextMon == NextConnect \/ drain

\* The hooks of programs/monitor.c and the consumer of their events.
SpecMon == InitMon /\ [][NextMon]_vars

\* The steps that continue a started invocation of a hook on CPU p.
HookStep(p) ==
    \/ UdpFetchAdd(p) \/ UdpFetchAnd(p) \/ UdpUpdateElem(p)
    \/ tcp_connect_submit(p) \/ udp_v4_connect_submit(p)

\* The IPv4 hooks of both programs on two CPUs, from a full map and a ring
\* with room for one more record; the consumer never runs.  A started
\* invocation keeps being scheduled; nothing is assumed of further
\* invocations.
InitLive == InitHooks /\ InitMapFull /\ InitRingLast /\ hist = "live"
NextLive ==
    \/ \E p \in Procs : udp_sendmsg(p)
    \/ \E p \in Procs : udp_recvmsg(p)
    \/ \E p \in Procs : UdpFetchAdd(p)
    \/ \E p \in Procs : UdpFetchAnd(p)
    \/ \E p \in Procs : UdpUpdateElem(p)
    \/ \E p \in Procs : tcp_connect(p)
    \/ \E p \in Procs : tcp_connect_submit(p)
    \/ \E p \in Procs : udp_v4_connect(p)
    \/ \E p \in Procs : udp_v4_connect_submit(p)
SpecLive == InitLive /\ [][NextLive]_vars /\ \A p \in Procs : WF_vars(HookStep(p))

\* enter_execve next to the connect hooks of monitor.c.
InitEx == InitBw /\ InitCalls /\ InitRing /\ InitExecUsed /\ hist = "exec"
NextEx ==
    \/ \E p \in Procs : enter_execve(p)
    \/ \E p \in Procs : exec_comm(p)
    \/ \E p \in Procs : exec_filename(p)
    \/ \E p \in Procs : exec_argv(p)
    \/ \E p \in Procs : exec_out(p)
    \/ \E p \in Procs : tcp_connect(p)
    \/ \E p \in Procs : tcp_connect_submit(p)
    \/ \E p \in Procs : udp_v4_connect(p)
    \/ \E p \in Procs : udp_v4_connect_submit(p)
    \/ \E p \in Procs : udp_v6_connect(p)
    \/ \E p \in Procs : udp_v6_connect_submit(p)
SpecEx == InitEx /\ [][NextEx]_vars

InitAll == InitBw /\ InitProcs /\ hist = "all"
NextAll == NextMap \/ NextConnect
\* The hooks of both programs, one invocation at a time, with no consumer.
SpecAll == InitAll /\ [][NextAll]_vars

\* ------------------------------------------------------------------ claims
AllIdle == \A p \in Procs : hooks[p].pc = "idle"
Keys == KeysOf(pm_bandwidth_map)
Full == Cardinality(DOMAIN pm_bandwidth_map) = SOCKOPS_MAP_SIZE

\* C1: once all concurrent accumulate calls on a flow have returned, and no
\* key was evicted, the entry's tx equals the sum of the tx deltas and its rx
\* the sum of the rx deltas of those calls.
C1_ExactSums ==
    (AllIdle /\ evicted = {}) =>
        \A e \in DOMAIN pm_bandwidth_map :
            /\ pm_bandwidth_map[e].tx = sums[pm_bandwidth_map[e].key].tx
            /\ pm_bandwidth_map[e].rx = sums[pm_bandwidth_map[e].key].rx

Flips(e, a, b) ==
    /\ e \in DOMAIN pm_bandwidth_map
    /\ pm_bandwidth_map'[e].key = pm_bandwidth_map[e].key
    /\ pm_bandwidth_map[e].reported = a
    /\ pm_bandwidth_map'[e].reported = b

C5_NeverDecrease ==
    [][\A e \in DOMAIN pm_bandwidth_map :
          pm_bandwidth_map'[e].key = pm_bandwidth_map[e].key =>
              /\ pm_bandwidth_map'[e].rx >= pm_bandwidth_map[e].rx
              /\ pm_bandwidth_map'[e].tx >= pm_bandwidth_map[e].tx]_vars

\* C6: the map never holds more than SOCKOPS_MAP_SIZE entries, its keys are
\* distinct, and the insertion of a new key into a full map removes exactly
\* one entry.
C6_Capacity ==
    [][/\ Cardinality(DOMAIN pm_bandwidth_map') <= SOCKOPS_MAP_SIZE
       /\ Cardinality(Keys') = Cardinality(DOMAIN pm_bandwidth_map')
       /\ (Full /\ ~(Keys' \subseteq Keys)) =>
              /\ Cardinality(Keys \ Keys') = 1
              /\ Cardinality(Keys' \ Keys) = 1]_vars

\* A full map out of which a key has been evicted.
C6_Witness == Full /\ evicted # {}

\* SOCKOPS_MAP_SIZE + 1 distinct keys were inserted by as many hook calls,
\* which all have returned: each key was touched once.
OnceEach ==
    /\ AllIdle
    /\ ncalls = SOCKOPS_MAP_SIZE + 1
    /\ Len(inserted) = SOCKOPS_MAP_SIZE + 1
    /\ Cardinality({inserted[i] : i \in 1 .. Len(inserted)}) = SOCKOPS_MAP_SIZE + 1

C8_FullChannelFailsFast ==
    [][(RingFull(rb_hdr) /\ ncalls' = ncalls + 1) =>
           /\ rb_hdr' = rb_hdr /\ rb_mem' = rb_mem /\ rb_next' = rb_next
           /\ conn' = conn /\ last' = last
           /\ ret' = <<0>>]_vars

\* A hook found the ring full, returned, and the ring is still full.
C8_Witness == dropped > 0 /\ RingFull(rb_hdr) /\ ret = <<0>>

\* C9: no step of a hook changes or reorders a record that was submitted and
\* not yet dequeued, a full ring takes no further record, and the consumer
\* dequeues the oldest record with the content it was submitted with.
C9_AcceptedRecordsKept ==
    [][IF Len(rb_hdr') < Len(rb_hdr)
       THEN /\ ~Head(rb_hdr).busy
            /\ last' = rb_mem[Head(rb_hdr).slot]
            /\ rb_hdr' = Tail(rb_hdr)
            /\ rb_mem' = rb_mem
       ELSE /\ \A i \in DOMAIN rb_hdr :
                   /\ rb_hdr'[i].slot = rb_hdr[i].slot
                   /\ ~rb_hdr[i].busy =>
                          /\ ~rb_hdr'[i].busy
                          /\ rb_mem'[rb_hdr[i].slot] = rb_mem[rb_hdr[i].slot]
            /\ RingFull(rb_hdr) => Len(rb_hdr') = Len(rb_hdr)
            /\ last' = last]_vars

\* The ring filled, a later submission was dropped, and the consumer has
\* dequeued a record while a submitted one is still queued.
C9_Witness ==
    /\ dropped > 0
    /\ last # ZeroEvent
    /\ rb_hdr # <<>>
    /\ \A i \in DOMAIN rb_hdr : ~rb_hdr[i].busy

\* C10: whatever a hook of either program returned last, it returned 0.
C10_HooksReturnZero == ret \in {NoRet, <<0>>}

\* A hook has returned after its reservation failed on a full ring.
C10_Witness == dropped > 0 /\ ret = <<0>> /\ ncalls = MaxEvents

\* The socket families a hook handles (monitor.c:63-77, 89-91, 136-138).
Handles(fn, fam) ==
    CASE fn = "tcp_connect" -> fam \in {AF_INET, AF_INET6}
      [] fn = "udp_v4_connect" -> fam = AF_INET
      [] fn = "udp_v6_connect" -> fam = AF_INET6

\* C11: a hook reserves a record (which it then submits) only for a socket
\* of a family it handles; on any other family it leaves the ring alone.
C11_UnsupportedFamilyNoOp ==
    [][\A p \in Procs :
           (conn[p].pc = "idle" /\ conn'[p].pc = "reserved") =>
               Handles(conn'[p].fn, conn'[p].sk.skc_family)]_vars

\* The tags of the records that wait in the ring, oldest first.
Queued == [i \in DOMAIN rb_hdr |-> rb_tag[rb_hdr[i].slot]]
Tickets(seq) == {seq[i].id : i \in DOMAIN seq}

\* C12: the records of one producer are dequeued in the order in which that
\* producer's calls were made: of two dequeued records of the same producer,
\* the one dequeued first has the earlier ticket.
C12_ProducerOrderKept ==
    \A i, j \in DOMAIN got :
        (i < j /\ got[i].by = got[j].by) => got[i].id < got[j].id

\* Two records of one producer and, between them, a record of the other
\* producer have been dequeued.
C12_Witness ==
    /\ Len(got) = 3
    /\ got[1].by = got[3].by
    /\ got[2].by # got[1].by

\* C13: every record the ring accepted is dequeued exactly once: no ticket
\* is dequeued twice, none is both dequeued and still waiting, an accepted
\* ticket stays waiting until it is dequeued, and a dequeue takes exactly the
\* oldest record, which is submitted and in no hook's hands.
C13_ExactlyOnce ==
    /\ [](/\ \A i, j \in DOMAIN got : got[i].id = got[j].id => i = j
          /\ Tickets(Queued) \cap Tickets(got) = {})
    /\ [][/\ Tickets(Queued) \cup Tickets(got) \subseteq Tickets(Queued') \cup Tickets(got')
          /\ got' # got =>
                 /\ got' = Append(got, Queued[1])
                 /\ Queued' = Tail(Queued)
                 /\ ~Head(rb_hdr).busy
                 /\ \A p \in Procs :
                        ~(conn[p].pc = "reserved" /\ conn[p].rec = Head(rb_hdr).slot)]_vars

\* A record was dequeued while a later one, reserved and not yet submitted,
\* waits behind a submitted one.
C13_Witness ==
    /\ Len(got) = 1
    /\ Len(rb_hdr) = 2
    /\ ~rb_hdr[1].busy
    /\ rb_hdr[2].busy

\* A 16-bit value read from memory in network and in host byte order.
ntohs(b) == b[1] * 256 + b[2]
host16(b) == b[1] + b[2] * 256
\* A 32-bit value read from memory in network byte order.
ntohl(b) == ((b[1] * 256 + b[2]) * 256 + b[3]) * 256 + b[4]

\* What a record says about the socket sk when each of its fields is read in
\* network byte order: an address lane read that way has the bytes of the
\* address in the order the socket holds them.
Describes(e, sk) ==
    /\ ntohs(e.sport) = host16(sk.skc_num)
    /\ ntohs(e.dport) = ntohs(sk.skc_dport)
    /\ ntohl(e.pid) \in Pids
    /\ IF sk.skc_family = AF_INET
       THEN /\ e.saddr[1] = sk.skc_rcv_saddr
            /\ e.daddr[1] = sk.skc_daddr
            /\ e.ipVersion = 4
       ELSE /\ e.saddr = sk.skc_v6_rcv_saddr
            /\ e.daddr = sk.skc_v6_daddr
            /\ e.ipVersion = 6
    /\ e.protocol = sk.sk_protocol
    /\ e.direction = OUTBOUND

\* C14: the record a drain returns, read in network byte order, carries the
\* addresses, ports, pid, IP version, protocol and direction of the socket
\* its hook was called on (sockets of a family the hook handles).
C14_RoundTrip ==
    [][got' # got =>
           (Queued[1].sk.skc_family \in {AF_INET, AF_INET6} =>
                Describes(last', Queued[1].sk))]_vars

UpperLanesZero(a) == \A i \in 2 .. 4 : a[i] = ZERO32

\* C15: a submitted record of an IPv4 socket, and a table key of an IPv4
\* flow, has lanes 1..3 of both addresses zero, whatever the storage held
\* before.
C15_Ipv4UpperLanesZero ==
    /\ \A i \in DOMAIN rb_hdr :
           (~rb_hdr[i].busy /\ Queued[i].sk.skc_family = AF_INET) =>
               /\ UpperLanesZero(rb_mem[rb_hdr[i].slot].saddr)
               /\ UpperLanesZero(rb_mem[rb_hdr[i].slot].daddr)
    /\ \A key \in Keys :
           key.ipv6 = 0 => UpperLanesZero(key.src_ip) /\ UpperLanesZero(key.dst_ip)

\* An event and a table key agree field for field; the IP version is
\* compared by meaning (the key holds a flag, the event the number).
SameFields(e, key) ==
    /\ e.saddr = key.src_ip
    /\ e.daddr = key.dst_ip
    /\ e.sport = key.src_port
    /\ e.dport = key.dst_port
    /\ e.protocol = key.protocol
    /\ (e.ipVersion = 6) <=> (key.ipv6 = 1)

\* C16: when the ring holds the submitted event of a UDP socket and the
\* table holds the key the datagram hooks build for the same socket, the two
\* agree in addresses, ports, protocol and IP version.
C16_KeysComparable ==
    \A i \in DOMAIN rb_hdr : \A key \in Keys :
        (/\ ~rb_hdr[i].busy
         /\ Queued[i].sk.sk_protocol = UDP
         /\ key \in {udp_sendmsg_key(Queued[i].sk), udpv6_sendmsg_key(Queued[i].sk)}) =>
            SameFields(rb_mem[rb_hdr[i].slot], key)

\* The source and the destination address of a socket's flow, as 128 bits.
SrcOf(s) == IF s.skc_family = AF_INET THEN Lane0(s.skc_rcv_saddr) ELSE s.skc_v6_rcv_saddr
DstOf(s) == IF s.skc_family = AF_INET THEN Lane0(s.skc_daddr) ELSE s.skc_v6_daddr

\* C17: every key of the table holds, as source and destination address,
\* the source and the destination address of a flow the hooks were called
\* on, so that flows with different destinations have different keys.
C17_KeyHoldsFlowAddresses ==
    \A key \in Keys :
        \E s \in Udp4Socks \cup Udp6Socks \cup TcpSocks :
            key.src_ip = SrcOf(s) /\ key.dst_ip = DstOf(s)

\* C18: every submitted record of the ring, all of them written by the
\* outbound-connect hooks, has direction OUTBOUND, whatever the storage held
\* before.
C18_DirectionOutbound ==
    \A i \in DOMAIN rb_hdr :
        ~rb_hdr[i].busy => rb_mem[rb_hdr[i].slot].direction = OUTBOUND

\* C19: the record dequeued last, if its hook was called on an IPv4 or an
\* IPv6 socket (the families that reach the connect hooks), has ipVersion 4
\* or 6 and protocol 6, 17 or 136.
C19_WellFormedRecord ==
    (got # <<>> /\ got[Len(got)].sk.skc_family \in {AF_INET, AF_INET6}) =>
        /\ last.ipVersion \in {4, 6}
        /\ last.protocol \in {TCP, UDP, UDPLite}

\* The record dequeued last was written for an IPv4 socket into storage that
\* an earlier record had left non-zero.
C19_Witness ==
    /\ Len(got) = 3
    /\ got[3].sk.skc_family = AF_INET
    /\ last.saddr[2] # ZERO32

\* C20: every record built for a UDP-Lite socket carries the protocol value
\* UDPLite: the submitted events of the ring, and the table key of the
\* UDP-Lite flow.
C20_UdpLiteKept ==
    /\ \A i \in DOMAIN rb_hdr :
           (~rb_hdr[i].busy /\ Queued[i].sk.sk_protocol = IPPROTO_UDPLITE) =>
               rb_mem[rb_hdr[i].slot].protocol = UDPLite
    /\ \A key \in Keys :
           key = [udp_sendmsg_key(U4l) EXCEPT !.protocol = key.protocol] =>
               key.protocol = UDPLite

\* C21: a key leaves the map only in a step of a hook that inserts a new key
\* into the full map, never in a step of the consumer; and the entry a
\* datagram hook creates for an absent key, one evicted earlier included,
\* holds the hook's length in the counter of its direction and 0 in the other.
C21_RemovedOnlyByEviction ==
    [][/\ Keys \ Keys' # {} =>
              /\ Full
              /\ Cardinality(Keys \ Keys') = 1
              /\ Cardinality(Keys' \ Keys) = 1
              /\ ~ConsumerStep
       /\ \A p \in Procs :
              (hooks[p].pc = "miss" /\ Finished(p) /\ hooks[p].key \notin Keys) =>
                  LET e == pm_bandwidth_map'[ElemOf(pm_bandwidth_map', hooks[p].key)]
                  IN IF hooks[p].dir = "tx"
                     THEN e.tx = hooks[p].len /\ e.rx = 0
                     ELSE e.rx = hooks[p].len /\ e.tx = 0]_vars

\* The flow evicted first, which had sent one byte, is in the map again
\* after a receive of two bytes: its entry holds rx = 2 and tx = 0.
C21_Witness ==
    /\ AllIdle
    /\ FirstKeys[1] \in evicted
    /\ FirstKeys[1] \in Keys
    /\ pm_bandwidth_map[ElemOf(pm_bandwidth_map, FirstKeys[1])].rx = 2
    /\ pm_bandwidth_map[ElemOf(pm_bandwidth_map, FirstKeys[1])].tx = 0

\* C22: a step of a datagram hook that found its key's entry changes, in the
\* whole map, only the entry of that key, and in it only the counter of the
\* hook's direction or the reported flag.
C22_ChangesOnlyOwnEntry ==
    [][\A p \in Procs :
           (hooks[p].pc \in {"hit1", "hit2"} /\ hooks'[p] # hooks[p]) =>
               \A e \in DOMAIN pm_bandwidth_map :
                   IF pm_bandwidth_map[e].key = hooks[p].key
                   THEN /\ pm_bandwidth_map'[e].key = pm_bandwidth_map[e].key
                        /\ hooks[p].dir = "tx" => pm_bandwidth_map'[e].rx = pm_bandwidth_map[e].rx
                        /\ hooks[p].dir = "rx" => pm_bandwidth_map'[e].tx = pm_bandwidth_map[e].tx
                   ELSE pm_bandwidth_map'[e] = pm_bandwidth_map[e]]_vars

\* C23 as stated: no step of a hook changes the state of a socket.
C23_SocketUntouched == [][skops' = skops]_vars

\* C23: the only socket state a hook changes is the callback flags of the
\* socket of a setup callback of socket_operations, which are set; that step
\* changes neither the map nor the ring, and no step of any other hook
\* changes a socket.
C23_OnlyCallbackFlagsSet ==
    [][skops' # skops =>
           /\ \E sk \in TcpSocks :
                  /\ skops'[sk].cb_flags = 1
                  /\ \A t \in TcpSocks \ {sk} : skops'[t] = skops[t]
           /\ hooks' = hooks
           /\ pm_bandwidth_map' = pm_bandwidth_map
           /\ chanvars' = chanvars]_vars

\* A setup callback has set the flags of one connection only, and hooks of
\* both programs have written the map and the ring.
C23_Witness ==
    /\ skops[T4a].cb_flags = 1
    /\ skops[T6a].cb_flags = 0
    /\ Keys # {}
    /\ rb_hdr # <<>>

\* The bytes of the ring that records reserved or submitted and not yet
\* dequeued occupy.
Occupied(hdr) == Len(hdr) * RecordBytes

\* C24: the occupied bytes of the ring never exceed its capacity, and a hook
\* that starts when one more record would exceed it reserves nothing.
C24_WithinCapacity ==
    [][/\ Occupied(rb_hdr') <= RingBytes
       /\ (Occupied(rb_hdr) + RecordBytes > RingBytes /\ ncalls' = ncalls + 1) =>
              rb_hdr' = rb_hdr /\ rb_next' = rb_next]_vars

\* The ring is filled to its capacity by a submitted record and one still
\* reserved, and a reservation has been refused.
C24_Witness ==
    /\ Occupied(rb_hdr) = RingBytes
    /\ dropped > 0
    /\ \E i \in DOMAIN rb_hdr : rb_hdr[i].busy
    /\ \E i \in DOMAIN rb_hdr : ~rb_hdr[i].busy

InFlight(p) == hooks[p].pc # "idle" \/ conn[p].pc # "idle"

\* C25: an invocation of a hook that has started on a CPU returns, whether
\* or not the consumer ever runs and whatever the other CPU does.
C25_HooksReturn == \A p \in Procs : InFlight(p) ~> ~InFlight(p)

\* All invocations have returned with the map full, the ring full, a
\* reservation refused and nothing ever dequeued.
C25_Witness ==
    /\ \A p \in Procs : ~InFlight(p)
    /\ ncalls = MaxLiveCalls
    /\ Full
    /\ RingFull(rb_hdr)
    /\ dropped > 0
    /\ got = <<>>

\* ------------------------------------------------------------- enter_execve
Holders(rec) == {p \in Procs : exec[p].pc # "idle" /\ exec[p].rec = rec}
ConnHolders(rec) == {p \in Procs : conn[p].pc = "reserved" /\ conn[p].rec = rec}

\* C26: the argc of a submitted event is the number of argv entries copied
\* when the process has at most ARGLEN arguments, and it is ARGLEN + 1
\* exactly when the process has more than ARGLEN arguments (for a process
\* whose arguments could all be read).
C26_ArgcCountsArguments ==
    \A i \in DOMAIN pm_exec_map :
        LET r == pm_exec_map[i]
        IN r.submits > 0 /\ ~r.faulted =>
              /\ r.nargs <= ARGLEN => r.argc = r.argv
              /\ r.argc = ARGLEN + 1 <=> r.nargs > ARGLEN

\* C27: a reserved record is held by exactly one hook invocation until that
\* invocation releases it, and it is released exactly once: submitted by
\* tcp_connect / udp_v4_connect / udp_v6_connect, submitted or discarded (never both) by
\* enter_execve; a hook that has returned holds no record.
C27_ReleasedExactlyOnce ==
    /\ \A i \in DOMAIN pm_exec_map :
          LET r == pm_exec_map[i]
          IN IF r.busy
             THEN r.submits + r.discards = 0 /\ Cardinality(Holders(r.slot)) = 1
             ELSE r.submits + r.discards = 1 /\ Holders(r.slot) = {}
    /\ \A i \in DOMAIN rb_hdr :
          Cardinality(ConnHolders(rb_hdr[i].slot)) = (IF rb_hdr[i].busy THEN 1 ELSE 0)
    /\ \A p \in Procs :
          /\ exec[p].pc # "idle" => \E i \in DOMAIN pm_exec_map : pm_exec_map[i].slot = exec[p].rec
          /\ conn[p].pc = "reserved" => \E i \in DOMAIN rb_hdr : rb_hdr[i].slot = conn[p].rec

C27_Witness ==
    /\ \A p \in Procs : exec[p].pc = "idle" /\ conn[p].pc = "idle"
    /\ ncalls = MaxExecCalls
    /\ \E i \in DOMAIN pm_exec_map :
          pm_exec_map[i].discards = 1 \/ (pm_exec_map[i].submits = 1 /\ pm_exec_map[i].slot # 1)
    /\ \E i \in DOMAIN rb_hdr : ~rb_hdr[i].busy

\* -------------------------------------------------------- socket_operations
\* The step is a call of socket_operations.
SockOpsStep == ncalls' = ncalls + 1 /\ hooks' = hooks /\ called' # NoCall

\* C28: the setup callbacks and a callback with a null socket leave the table
\* unchanged; any other callback on an IPv4 or IPv6 socket leaves the entry of
\* that socket's key at rx = bytes_received, tx = bytes_acked, and changes no
\* other entry, apart from one entry that may be evicted to make room.
C28_SockOpsFrame ==
    [][SockOpsStep =>
         LET c == called'
             k == sockops_key(c.sk)
             m == pm_bandwidth_map
             others == {e \in DOMAIN m : m[e].key # k}
         IN IF \/ c.op \in {"BPF_SOCK_OPS_TCP_CONNECT_CB", "BPF_SOCK_OPS_TCP_LISTEN_CB",
                            "BPF_SOCK_OPS_PASSIVE_ESTABLISHED_CB"}
               \/ c.sk_is_null
            THEN pm_bandwidth_map' = m
            ELSE c.sk.skc_family \in {AF_INET, AF_INET6} =>
                   /\ Cardinality({e \in DOMAIN pm_bandwidth_map' :
                                      pm_bandwidth_map'[e].key = k}) = 1
                   /\ \A e \in DOMAIN pm_bandwidth_map' :
                         pm_bandwidth_map'[e].key = k =>
                            /\ pm_bandwidth_map'[e].rx = c.bytes_received
                            /\ pm_bandwidth_map'[e].tx = c.bytes_acked
                   /\ \A e \in others :
                         pm_bandwidth_map'[e] = m[e] \/ pm_bandwidth_map'[e].key = k
                   /\ Cardinality({e \in others : pm_bandwidth_map'[e] # m[e]}) <= 1
                   /\ Present(m, k) => \A e \in others : pm_bandwidth_map'[e] = m[e]]_vars

\* A data callback on the IPv6 socket has evicted an entry to store its totals.
C28_Witness ==
    /\ called.op \notin SetupOps /\ ~called.sk_is_null /\ called.sk = T6a
    /\ called.bytes_received = 1 /\ called.bytes_acked = 0
    /\ Present(pm_bandwidth_map, sockops_key(T6a))
    /\ pm_bandwidth_map[ElemOf(pm_bandwidth_map, sockops_key(T6a))].rx = 1
    /\ ~Present(pm_bandwidth_map, FirstKeys[2])
    /\ Full

\* ----------------------------------------------------------- nfqueue_cb_new
\* C29: when the callback has returned for a packet whose packet header it
\* obtained, exactly one verdict has been set for the packet, short payloads
\* included.
C29_OneVerdict ==
    (nfq.pc = "returned" /\ ~nfq.ph_null) => nfq.verdicts = 1

\* C30: every header field the callback has read, and the addresses saddr and
\* daddr point to, lie within the first len bytes of the payload.
C30_WithinPayload ==
    nfq.pc = "returned" => nfq.read <= Max2(nfq.len, 0) /\ nfq.handed <= Max2(nfq.len, 0)

\* ------------------------------------------------------- DNS trace listener
\* C31: the callback is invoked for an event only when both properties were
\* read successfully, no buffer is ever freed twice, and when
\* EventRecordCallback has returned every buffer getPropertyValue allocated
\* has been freed exactly once.
C31_CallbackAndBuffers ==
    /\ etw.callbacks > 0 => etw.callbacks = 1 /\ \A q \in Props : etw.ok[q]
    /\ \A b \in DOMAIN heap : heap[b].frees <= 1 /\ (heap[b].live <=> heap[b].frees = 0)
    /\ etw.pc \in {"idle", "returned"} => \A b \in DOMAIN heap : heap[b].frees = 1

\* An event whose QueryName could not be read after its buffer was allocated,
\* then an event with both properties read and the callback invoked.
C31_Witness ==
    /\ etw.pc = "returned"
    /\ etw.callbacks = 1
    /\ ncalls = 2
    /\ Len(heap) = 4
    /\ \A b \in DOMAIN heap : heap[b].frees = 1

\* ------------------------------------------------------ pm_InitDriverObject
InitOrder == <<"WdfDriverCreate", "WdfControlDeviceInitAllocate", "WdfDeviceCreate",
               "WdfDeviceCreateSymbolicLink", "WdfControlFinishInitializing">>
IsInitStep(t) == t.call # "WdfDeviceInitFree"
IsInitFree(t) == t.call = "WdfDeviceInitFree"
InitSteps == SelectSeq(wdf.trace, IsInitStep)
InitFrees == SelectSeq(wdf.trace, IsInitFree)

\* C32: the steps are made in the order driver creation, device-init
\* allocation, device creation, symbolic-link creation, finish-initializing;
\* a failing step is the last step made and its failure status is returned;
\* without a failing step all five steps are made and STATUS_SUCCESS is
\* returned; the device-init structure is freed exactly when device creation
\* fails.
C32_OrderedInit ==
    LET failedAt == {i \in DOMAIN InitSteps : ~NT_SUCCESS(InitSteps[i].status)}
    IN /\ Len(InitSteps) <= Len(InitOrder)
       /\ \A i \in DOMAIN InitSteps : InitSteps[i].call = InitOrder[i]
       /\ \A i \in failedAt :
             /\ i = Len(InitSteps)
             /\ wdf.pc = "returned"
             /\ wdf.status = InitSteps[i].status
             /\ ret = <<InitSteps[i].status>>
       /\ (wdf.pc = "returned" /\ failedAt = {}) =>
             /\ Len(InitSteps) = Len(InitOrder)
             /\ wdf.status = STATUS_SUCCESS
             /\ ret = <<STATUS_SUCCESS>>
       /\ Len(InitFrees) = (IF 3 \in failedAt THEN 1 ELSE 0)
       /\ wdf.deviceInit = "freed" <=> 3 \in failedAt

\* The second call of pm_InitDriverObject has returned the failure status of
\* device creation, with the device-init structure freed.
C32_Witness ==
    /\ ncalls = 2
    /\ wdf.pc = "returned"
    /\ Len(InitSteps) = 3
    /\ wdf.status = STATUS_UNSUCCESSFUL
    /\ InitSteps[1].status = STATUS_WAIT_1
    /\ Len(InitFrees) = 1
    /\ wdf.deviceInit = "freed"

====
